---------------------------- MODULE Spec2Model ----------------------------
(***************************************************************************)
(* Quote store of mcp-theanswer: the SQLite tables (quotes, tags,          *)
(* quote_tags, sqlite_sequence) and the data-access operations of          *)
(* database/operations.py over them.                                       *)
(*                                                                         *)
(* Strings are sequences of one-character strings, so that str.strip(),    *)
(* ORDER BY name and LOWER() are computed rather than assumed.  Optional   *)
(* values (Python None / SQL NULL) are sequences of length 0 or 1.         *)
(***************************************************************************)
EXTENDS Integers, Sequences, FiniteSets, Bags, TLC

VARIABLES
    db,     \* committed content of the database file
    now,    \* CURRENT_TIMESTAMP, in whole seconds
    last,   \* the last call: operation, arguments, outcome, returned value
    procs   \* the calls in progress of concurrent callers: where each stands

vars == <<db, now, last, procs>>

---------------------------------------------------------------------------
(* Bounds of the model *)

\* AUTOINCREMENT ids handed out to quotes over a run
MaxQuotes == 2

\* the clock stops here
MaxTime == 1

\* a storage fault can be injected at the 1st .. MaxFault-th write statement
MaxFault == 4

\* the number of entries of the fixed seed list in the model
SeedLen == 2

\* seed_database inserts while fewer than MaxSeeds runs of the list have
\* been handed ids
MaxSeeds == 2

---------------------------------------------------------------------------
(* Optional values *)

\* schema.py: SCHEMA_VERSION
SCHEMA_VERSION == 1

None == <<>>

Some(v) == <<v>>

---------------------------------------------------------------------------
(* Strings *)

\* ASCII code of the characters the model uses; SQLite's BINARY collation
\* (the default for TEXT columns and ORDER BY) compares these byte values.
Code(c) ==
    CASE c = " " -> 32
      [] c = "A" -> 65
      [] c = "a" -> 97
      [] c = "b" -> 98
      [] c = "s" -> 115
      [] c = "x" -> 120
      [] c = "y" -> 121

IsSpace(c) == c = " "

RECURSIVE LStrip(_)
LStrip(s) ==
    IF s # <<>> /\ IsSpace(Head(s)) THEN LStrip(Tail(s)) ELSE s

RECURSIVE RStrip(_)
RStrip(s) ==
    IF s # <<>> /\ IsSpace(s[Len(s)]) THEN RStrip(SubSeq(s, 1, Len(s) - 1)) ELSE s

\* seeded fault for C6: strip() that leaves the string alone
StripNothing(s) == s

\* str.strip()
Strip(s) == RStrip(LStrip(s))

\* seeded fault for C17: `not s` alone
BlankOnlyEmpty(s) == s = <<>>

\* `not s or not s.strip()`
Blank(s) == s = <<>> \/ Strip(s) = <<>>

\* s < t in the BINARY collation
RECURSIVE LexLess(_, _)
LexLess(s, t) ==
    IF t = <<>> THEN FALSE
    ELSE IF s = <<>> THEN TRUE
    ELSE IF Code(Head(s)) # Code(Head(t)) THEN Code(Head(s)) < Code(Head(t))
    ELSE LexLess(Tail(s), Tail(t))

\* the elements of a bag of strings in ascending order, with repetition
RECURSIVE SortBag(_)
SortBag(B) ==
    IF BagToSet(B) = {} THEN <<>>
    ELSE LET m == CHOOSE x \in BagToSet(B) :
                      \A y \in BagToSet(B) : y = x \/ LexLess(x, y)
         IN  <<m>> \o SortBag(B (-) SetToBag({m}))

\* the set of elements of a sequence
Range(s) == {s[i] : i \in 1..Len(s)}

---------------------------------------------------------------------------
(* The database file and a connection to it *)

\* the tables right after init_database: quote_tags is a bag of rows, so
\* that its PRIMARY KEY is a constraint the inserts enforce, and seq is
\* sqlite_sequence, the last AUTOINCREMENT id of each table
EmptyDb ==
    [quotes     |-> {},
     tags       |-> {},
     quote_tags |-> EmptyBag,
     seq        |-> [quotes |-> 0, tags |-> 0],
     schema_version |-> {[version |-> SCHEMA_VERSION, applied_at |-> 0]},
     file       |-> "schema"]

\* a path at which no file exists.  file is "absent" for no file, "empty"
\* for a file without tables, which sqlite3.connect creates, and "schema"
\* once init_database has created the tables
NoFile == [EmptyDb EXCEPT !.schema_version = {}, !.file = "absent"]

\* the tables exist; a statement on a file without them raises
\* sqlite3.OperationalError, no such table
HasTables(d) == d.file = "schema"

\* sqlite3.connect + PRAGMA foreign_keys = ON.  The connection works on its
\* own view of the tables inside an implicit transaction; fault is the
\* number of the write statement at which the engine raises (0: never).
GetConnection(d, fault) ==
    [db |-> d, error |-> "none", committed |-> FALSE, fault |-> fault]

Ok(c) == c.error = "none"

\* an exception raised inside the try block: the statements after it are skipped
Raise(c, e) == IF Ok(c) THEN [c EXCEPT !.error = e] ELSE c

\* conn.execute of a write statement whose effect on the tables is d2
Execute(c, d2) ==
    IF ~Ok(c) THEN c
    ELSE IF c.fault = 1 THEN Raise(c, "OperationalError")
    ELSE [c EXCEPT !.db = d2, !.fault = IF @ = 0 THEN 0 ELSE @ - 1]

\* conn.commit()
Commit(c) ==
    IF ~Ok(c) THEN c
    ELSE IF c.fault = 1 THEN Raise(c, "OperationalError")
    ELSE [c EXCEPT !.committed = TRUE]

\* seeded fault for C4: close() that keeps the writes of an open transaction
CloseKeepingWrites(d, c) == c.db

\* finally: conn.close() -- the file holds the connection's writes if it
\* committed; an open transaction is rolled back
Close(d, c) == IF c.committed THEN c.db ELSE d

---------------------------------------------------------------------------
(* SQL statements *)

QuoteRow(d, id) == CHOOSE q \in d.quotes : q.id = id

QuoteExists(d, id) == \E q \in d.quotes : q.id = id

\* SELECT id FROM tags WHERE name = ? -- the ids of the matching rows
TagIdsNamed(d, name) == {t.id : t \in {u \in d.tags : u.name = name}}

\* the largest id of a set of rows, 0 for no rows
MaxId(rows) ==
    IF rows = {} THEN 0
    ELSE CHOOSE m \in {r.id : r \in rows} : \A r \in rows : r.id <= m

\* seeded fault for C18: id INTEGER PRIMARY KEY without AUTOINCREMENT, which
\* takes the largest rowid in the table plus one
InsertQuoteReusingRowid(c, text, author, source, year, time) ==
    LET id == MaxId(c.db.quotes) + 1
    IN  Execute(c, [c.db EXCEPT
            !.quotes = @ \cup {[id |-> id, text |-> text, author |-> author,
                                source |-> source, year |-> year,
                                created_at |-> time]},
            !.seq.quotes = id])

\* INSERT INTO quotes (text, author, source, year): id from AUTOINCREMENT,
\* created_at from DEFAULT CURRENT_TIMESTAMP
InsertQuote(c, text, author, source, year, time) ==
    LET id == c.db.seq.quotes + 1
    IN  Execute(c, [c.db EXCEPT
            !.quotes = @ \cup {[id |-> id, text |-> text, author |-> author,
                                source |-> source, year |-> year,
                                created_at |-> time]},
            !.seq.quotes = id])

\* INSERT INTO tags (name), under name TEXT UNIQUE NOT NULL
InsertTag(c, name) ==
    IF ~Ok(c) THEN c
    ELSE IF TagIdsNamed(c.db, name) # {} THEN Raise(c, "IntegrityError")
    ELSE LET id == c.db.seq.tags + 1
         IN  Execute(c, [c.db EXCEPT !.tags = @ \cup {[id |-> id, name |-> name]},
                                     !.seq.tags = id])

\* INSERT INTO quote_tags (quote_id, tag_id), under the PRIMARY KEY and the
\* two FOREIGN KEYs (enforced: foreign_keys = ON)
InsertQuoteTag(c, quote_id, tag_id) ==
    LET row == [quote_id |-> quote_id, tag_id |-> tag_id]
    IN  IF ~Ok(c) THEN c
        ELSE IF BagIn(row, c.db.quote_tags) THEN Raise(c, "IntegrityError")
        ELSE IF ~QuoteExists(c.db, quote_id) \/ ~(\E t \in c.db.tags : t.id = tag_id)
             THEN Raise(c, "IntegrityError")
        ELSE Execute(c, [c.db EXCEPT !.quote_tags = @ (+) SetToBag({row})])

\* the association rows of the other quotes, with their multiplicity
RowsOfOtherQuotes(B, quote_id) ==
    [r \in {x \in BagToSet(B) : x.quote_id # quote_id} |-> B[r]]

\* DELETE FROM quote_tags WHERE quote_id = ?
DeleteQuoteTags(c, quote_id) ==
    Execute(c, [c.db EXCEPT !.quote_tags = RowsOfOtherQuotes(@, quote_id)])

\* seeded fault for C3: the delete without ON DELETE CASCADE (foreign keys off)
DeleteQuoteRowNoCascade(c, quote_id) ==
    Execute(c, [c.db EXCEPT !.quotes = {q \in @ : q.id # quote_id}])

\* DELETE FROM quotes WHERE id = ?, with quote_tags.quote_id ON DELETE CASCADE
DeleteQuoteRow(c, quote_id) ==
    Execute(c, [c.db EXCEPT !.quotes = {q \in @ : q.id # quote_id},
                            !.quote_tags = RowsOfOtherQuotes(@, quote_id)])

---------------------------------------------------------------------------
(* operations.py: helpers *)

\* seeded fault for C2: get-or-create that never looks the name up
GetOrCreateTagAlwaysInsert(c, tag_name) ==
    LET c2 == InsertTag(c, tag_name)
    IN  [conn |-> c2, id |-> c2.db.seq.tags]

\* _get_or_create_tag: the id of the tag row named tag_name, inserted when
\* the SELECT finds none (lastrowid is then the new AUTOINCREMENT id)
GetOrCreateTag(c, tag_name) ==
    IF ~Ok(c) THEN [conn |-> c, id |-> 0]
    ELSE IF TagIdsNamed(c.db, tag_name) # {}
         THEN [conn |-> c, id |-> CHOOSE i \in TagIdsNamed(c.db, tag_name) : TRUE]
    ELSE LET c2 == InsertTag(c, tag_name)
         IN  [conn |-> c2, id |-> c2.db.seq.tags]

\* the bag of names the join of tags and quote_tags yields for a quote: one
\* per (tag row, association row) pair with t.id = qt.tag_id
RECURSIVE JoinedNames(_, _, _)
JoinedNames(d, quote_id, tagRows) ==
    IF tagRows = {} THEN EmptyBag
    ELSE LET t   == CHOOSE u \in tagRows : TRUE
             row == [quote_id |-> quote_id, tag_id |-> t.id]
             n   == CopiesIn(row, d.quote_tags)
             rest == JoinedNames(d, quote_id, tagRows \ {t})
         IN  IF n = 0 THEN rest
             ELSE rest (+) [x \in {t.name} |-> n]

\* _get_tags_for_quote: SELECT t.name ... WHERE qt.quote_id = ? ORDER BY t.name
GetTagsForQuote(d, quote_id) == SortBag(JoinedNames(d, quote_id, d.tags))

\* Quote.from_row(row, tags)
FromRow(row, tags) ==
    [id |-> row.id, text |-> row.text, author |-> row.author,
     source |-> row.source, year |-> row.year,
     created_at |-> row.created_at, tags |-> tags]

\* the loop of add_quote and update_quote over the supplied names: blank
\* names are skipped, the others are stripped, resolved and associated
RECURSIVE AddTags(_, _, _)
AddTags(c, quote_id, tags) ==
    IF tags = <<>> \/ ~Ok(c) THEN c
    ELSE IF Blank(Head(tags)) THEN AddTags(c, quote_id, Tail(tags))
    ELSE LET g == GetOrCreateTag(c, Strip(Head(tags)))
         IN  AddTags(InsertQuoteTag(g.conn, quote_id, g.id), quote_id, Tail(tags))

\* tag_names of add_quote: the stripped non-blank names, in the order supplied
RECURSIVE TagNames(_)
TagNames(tags) ==
    IF tags = <<>> THEN <<>>
    ELSE IF Blank(Head(tags)) THEN TagNames(Tail(tags))
    ELSE <<Strip(Head(tags))>> \o TagNames(Tail(tags))

\* a tags argument as the list the loops run over: None and [] are both falsy
TagList(tags) == IF tags = None THEN <<>> ELSE tags[1]

\* the outcome of a call: what it raised or "ok", and the value it returned
Outcome(op, args, result, value) ==
    [op |-> op, args |-> args, result |-> result, value |-> value]

---------------------------------------------------------------------------
(* operations.py: the store operations, as functions of the file content.  *)
(* Each yields the file content after the call and the call's outcome.     *)

\* seeded fault for C5: validation that forgets the author
AddQuoteInvalidTextOnly(text, author) == Blank(text)

\* add_quote, "Validate inputs"
AddQuoteInvalid(text, author) == Blank(text) \/ Blank(author)

\* add_quote, "Fetch the created quote": the row as stored, with the list
\* tag_names the loop built
AddQuoteReturn(d, quote_id, tag_names) ==
    FromRow(QuoteRow(d, quote_id), tag_names)

\* add_quote(db_path, text, author, source, year, tags)
DoAddQuote(d, time, a, fault) ==
    IF AddQuoteInvalid(a.text, a.author)
    THEN [db |-> d, out |-> Outcome("add_quote", a, "InvalidInputError", None)]
    ELSE LET c0 == GetConnection(d, fault)
             c1 == InsertQuote(c0, Strip(a.text), Strip(a.author),
                               a.source, a.year, time)
             quote_id == c1.db.seq.quotes
             c2 == AddTags(c1, quote_id, TagList(a.tags))
             c3 == Commit(c2)
         IN  [db  |-> Close(d, c3),
              out |-> IF Ok(c3)
                      THEN Outcome("add_quote", a, "ok",
                               AddQuoteReturn(c3.db, quote_id, TagNames(TagList(a.tags))))
                      ELSE Outcome("add_quote", a, c3.error, None)]

\* get_quote_by_id(db_path, quote_id): the quote, or None
GetQuoteById(d, quote_id) ==
    IF ~QuoteExists(d, quote_id) THEN None
    ELSE Some(FromRow(QuoteRow(d, quote_id), GetTagsForQuote(d, quote_id)))

\* seeded fault for C13: validation of the text only
UpdateQuoteInvalidTextOnly(kw) == "text" \in DOMAIN kw /\ Blank(kw.text)

\* update_quote, "Validate inputs"
UpdateQuoteInvalid(kw) ==
    \/ "text" \in DOMAIN kw /\ Blank(kw.text)
    \/ "author" \in DOMAIN kw /\ Blank(kw.author)

\* seeded fault for C11: an UPDATE that writes NULL to an omitted source
UpdatedRowClearingSource(row, kw) ==
    [row EXCEPT
        !.text   = IF "text" \in DOMAIN kw THEN Strip(kw.text) ELSE @,
        !.author = IF "author" \in DOMAIN kw THEN Strip(kw.author) ELSE @,
        !.source = IF "source" \in DOMAIN kw THEN kw.source ELSE None,
        !.year   = IF "year" \in DOMAIN kw THEN kw.year ELSE @]

\* update_quote, "Update quote fields": the row with the supplied fields set
UpdatedRow(row, kw) ==
    [row EXCEPT
        !.text   = IF "text" \in DOMAIN kw THEN Strip(kw.text) ELSE @,
        !.author = IF "author" \in DOMAIN kw THEN Strip(kw.author) ELSE @,
        !.source = IF "source" \in DOMAIN kw THEN kw.source ELSE @,
        !.year   = IF "year" \in DOMAIN kw THEN kw.year ELSE @]

\* UPDATE quotes SET ... WHERE id = ?, run when a column is supplied
UpdateQuoteRow(c, quote_id, kw) ==
    IF DOMAIN kw \cap {"text", "author", "source", "year"} = {} \/ ~Ok(c) THEN c
    ELSE Execute(c, [c.db EXCEPT !.quotes =
             {IF q.id = quote_id THEN UpdatedRow(q, kw) ELSE q : q \in @}])

\* seeded fault for C15: a tag replacement that also deletes the tag rows
\* the quote carried
UpdateQuoteTagsDroppingTagRows(c, quote_id, kw) ==
    IF "tags" \notin DOMAIN kw THEN c
    ELSE LET c1 == DeleteQuoteTags(c, quote_id)
             c2 == Execute(c1, [c1.db EXCEPT !.tags =
                       {t \in @ : ~BagIn([quote_id |-> quote_id, tag_id |-> t.id],
                                         c.db.quote_tags)}])
         IN  AddTags(c2, quote_id, TagList(kw.tags))

\* update_quote, "Update tags if provided": the old associations are deleted
\* and the supplied names associated
UpdateQuoteTags(c, quote_id, kw) ==
    IF "tags" \notin DOMAIN kw THEN c
    ELSE AddTags(DeleteQuoteTags(c, quote_id), quote_id, TagList(kw.tags))

\* seeded fault for C12: update_quote without the "Check if quote exists" step
DoUpdateQuoteNoExistenceCheck(d, quote_id, kw, fault) ==
    LET a == [quote_id |-> quote_id, kwargs |-> kw]
    IN  IF UpdateQuoteInvalid(kw)
        THEN [db |-> d, out |-> Outcome("update_quote", a, "InvalidInputError", None)]
        ELSE LET c0 == GetConnection(d, fault)
                 c1 == IF QuoteExists(d, quote_id)
                       THEN UpdateQuoteRow(c0, quote_id, kw) ELSE c0
                 c2 == UpdateQuoteTags(c1, quote_id, kw)
                 c3 == Commit(c2)
             IN  [db  |-> Close(d, c3),
                  out |-> IF Ok(c3)
                          THEN Outcome("update_quote", a, "ok", TRUE)
                          ELSE Outcome("update_quote", a, c3.error, None)]

\* update_quote(db_path, quote_id, **kwargs)
DoUpdateQuote(d, quote_id, kw, fault) ==
    LET a == [quote_id |-> quote_id, kwargs |-> kw]
    IN  IF UpdateQuoteInvalid(kw)
        THEN [db |-> d, out |-> Outcome("update_quote", a, "InvalidInputError", None)]
        ELSE IF ~QuoteExists(d, quote_id)
        THEN [db |-> d, out |-> Outcome("update_quote", a, "ok", FALSE)]
        ELSE LET c0 == GetConnection(d, fault)
                 c1 == UpdateQuoteRow(c0, quote_id, kw)
                 c2 == UpdateQuoteTags(c1, quote_id, kw)
                 c3 == Commit(c2)
             IN  [db  |-> Close(d, c3),
                  out |-> IF Ok(c3)
                          THEN Outcome("update_quote", a, "ok", TRUE)
                          ELSE Outcome("update_quote", a, c3.error, None)]

\* delete_quote(db_path, quote_id): rowcount > 0
DoDeleteQuote(d, quote_id, fault) ==
    LET a  == [quote_id |-> quote_id]
        c0 == GetConnection(d, fault)
        c1 == DeleteQuoteRow(c0, quote_id)
        c2 == Commit(c1)
    IN  [db  |-> Close(d, c2),
         out |-> IF Ok(c2)
                 THEN Outcome("delete_quote", a, "ok", QuoteExists(d, quote_id))
                 ELSE Outcome("delete_quote", a, c2.error, None)]

\* seeded fault for C16: add_tag_to_quote without the "Check if association
\* already exists" step
DoAddTagToQuoteNoCheck(d, quote_id, tag, fault) ==
    LET a == [quote_id |-> quote_id, tag |-> tag]
    IN  IF Blank(tag)
        THEN [db |-> d, out |-> Outcome("add_tag_to_quote", a, "InvalidInputError", None)]
        ELSE IF ~QuoteExists(d, quote_id)
        THEN [db |-> d, out |-> Outcome("add_tag_to_quote", a, "ok", FALSE)]
        ELSE LET c0 == GetConnection(d, fault)
                 g  == GetOrCreateTag(c0, Strip(tag))
                 c2 == InsertQuoteTag(g.conn, quote_id, g.id)
                 c3 == Commit(c2)
             IN  [db  |-> Close(d, c3),
                  out |-> IF Ok(c3)
                          THEN Outcome("add_tag_to_quote", a, "ok", TRUE)
                          ELSE Outcome("add_tag_to_quote", a, c3.error, None)]

\* add_tag_to_quote(db_path, quote_id, tag)
DoAddTagToQuote(d, quote_id, tag, fault) ==
    LET a == [quote_id |-> quote_id, tag |-> tag]
    IN  IF Blank(tag)
        THEN [db |-> d, out |-> Outcome("add_tag_to_quote", a, "InvalidInputError", None)]
        ELSE IF ~QuoteExists(d, quote_id)
        THEN [db |-> d, out |-> Outcome("add_tag_to_quote", a, "ok", FALSE)]
        ELSE LET c0 == GetConnection(d, fault)
                 g  == GetOrCreateTag(c0, Strip(tag))
                 c1 == g.conn
                 c2 == IF Ok(c1) /\ BagIn([quote_id |-> quote_id, tag_id |-> g.id],
                                          c1.db.quote_tags)
                       THEN c1
                       ELSE InsertQuoteTag(c1, quote_id, g.id)
                 c3 == Commit(c2)
             IN  [db  |-> Close(d, c3),
                  out |-> IF Ok(c3)
                          THEN Outcome("add_tag_to_quote", a, "ok", TRUE)
                          ELSE Outcome("add_tag_to_quote", a, c3.error, None)]

---------------------------------------------------------------------------
(* operations.py: list_all_tags *)

\* COUNT(qt.quote_id) of the group of tag row t in tags LEFT JOIN quote_tags
TagCount(d, t) ==
    BagCardinality([r \in {x \in BagToSet(d.quote_tags) : x.tag_id = t.id}
                      |-> d.quote_tags[r]])

\* seeded fault for C23: the groups in the order of the tag ids
TagRowsById(rows) ==
    CHOOSE f \in [1..Cardinality(rows) -> rows] :
        /\ \A i, j \in DOMAIN f : i # j => f[i] # f[j]
        /\ \A i, j \in DOMAIN f : i < j => f[i].id < f[j].id

\* ORDER BY t.name: the tag rows in ascending order of their names
TagRowsByName(rows) ==
    CHOOSE f \in [1..Cardinality(rows) -> rows] :
        /\ \A i, j \in DOMAIN f : i # j => f[i] # f[j]
        /\ \A i, j \in DOMAIN f : i < j => ~LexLess(f[j].name, f[i].name)

\* seeded fault for C14: tags JOIN quote_tags, which has no row for a tag
\* that no quote carries
ListAllTagsInnerJoin(d) ==
    LET f == TagRowsByName({t \in d.tags : TagCount(d, t) > 0})
    IN  [i \in DOMAIN f |-> <<f[i].name, TagCount(d, f[i])>>]

\* list_all_tags(db_path): the (name, count) pairs, one for each tag row
ListAllTags(d) ==
    LET f == TagRowsByName(d.tags)
    IN  [i \in DOMAIN f |-> <<f[i].name, TagCount(d, f[i])>>]

---------------------------------------------------------------------------
(* operations.py: search_quotes *)

\* LOWER() and LIKE fold the ASCII letters only
Lower(c) == IF c = "A" THEN "a" ELSE c

LowerStr(s) == [i \in 1..Len(s) |-> Lower(s[i])]

\* s LIKE p: % in the pattern stands for any run of characters and _ for
\* any one character; the other characters match without regard to case
RECURSIVE LikeMatch(_, _)
LikeMatch(s, p) ==
    IF p = <<>> THEN s = <<>>
    ELSE IF Head(p) = "%"
         THEN LikeMatch(s, Tail(p)) \/ (s # <<>> /\ LikeMatch(Tail(s), p))
    ELSE /\ s # <<>>
         /\ Head(p) = "_" \/ Lower(Head(p)) = Lower(Head(s))
         /\ LikeMatch(Tail(s), Tail(p))

\* column LIKE ? with search_term = f"%{query}%"
Like(s, query) == LikeMatch(s, <<"%">> \o query \o <<"%">>)

\* `if x:` for an optional string or list
Truthy(o) == o # None /\ o[1] # <<>>

\* the parameter of HAVING COUNT(DISTINCT t.id) = ?, params.append(len(tags))
HavingCount(tags) == Len(tags)

\* the ids of the tag rows joined to a quote whose name is IN (tags)
MatchedTagIds(d, quote_id, tags) ==
    {t.id : t \in {u \in d.tags :
                     /\ BagIn([quote_id |-> quote_id, tag_id |-> u.id], d.quote_tags)
                     /\ u.name \in Range(tags)}}

\* seeded fault for C21: the statement with the tag joins always present
SearchRowsJoiningTags(d, query, author, tags) ==
    {q \in d.quotes :
        /\ \E r \in BagToSet(d.quote_tags) : r.quote_id = q.id
        /\ Truthy(tags) =>
               Cardinality(MatchedTagIds(d, q.id, tags[1])) = HavingCount(tags[1])
        /\ Truthy(query) => Like(q.text, query[1]) \/ Like(q.author, query[1])
        /\ Truthy(author) => LowerStr(q.author) = LowerStr(author[1])}

\* the quote rows the statement built by search_quotes selects
SearchRows(d, query, author, tags) ==
    {q \in d.quotes :
        /\ Truthy(tags) =>
               Cardinality(MatchedTagIds(d, q.id, tags[1])) = HavingCount(tags[1])
        /\ Truthy(query) => Like(q.text, query[1]) \/ Like(q.author, query[1])
        /\ Truthy(author) => LowerStr(q.author) = LowerStr(author[1])}

\* ORDER BY created_at DESC: every order of the rows that has no row before
\* a more recent one (SQL leaves the order of equal timestamps open)
OrderedByCreatedAtDesc(rows) ==
    {f \in [1..Cardinality(rows) -> rows] :
        /\ \A i, j \in DOMAIN f : i # j => f[i] # f[j]
        /\ \A i, j \in DOMAIN f : i < j => f[i].created_at >= f[j].created_at}

\* the quotes built from ordered rows, each with its tag names
QuotesOf(d, f) == [i \in DOMAIN f |-> FromRow(f[i], GetTagsForQuote(d, f[i].id))]

\* search_quotes(db_path, query, author, tags): the lists it can return
SearchQuotes(d, query, author, tags) ==
    {QuotesOf(d, f) : f \in OrderedByCreatedAtDesc(SearchRows(d, query, author, tags))}

---------------------------------------------------------------------------
(* operations.py: get_all_quotes, get_quotes_by_author, get_quotes_by_tag *)

\* get_all_quotes(db_path): the lists it can return
GetAllQuotes(d) ==
    {QuotesOf(d, f) : f \in OrderedByCreatedAtDesc(d.quotes)}

\* seeded fault for C22: WHERE LOWER(author) = LOWER(?)
GetQuotesByAuthorIgnoringCase(d, author) ==
    {QuotesOf(d, f) :
        f \in OrderedByCreatedAtDesc(
                 {q \in d.quotes : LowerStr(q.author) = LowerStr(author)})}

\* get_quotes_by_author(db_path, author): WHERE author = ?
GetQuotesByAuthor(d, author) ==
    {QuotesOf(d, f) :
        f \in OrderedByCreatedAtDesc({q \in d.quotes : q.author = author})}

\* get_quotes_by_tag(db_path, tag): SELECT DISTINCT q.* over the join of
\* quotes, quote_tags and tags WHERE t.name = ?
GetQuotesByTag(d, tag) ==
    {QuotesOf(d, f) :
        f \in OrderedByCreatedAtDesc(
                 {q \in d.quotes :
                     \E t \in d.tags :
                         /\ t.name = tag
                         /\ BagIn([quote_id |-> q.id, tag_id |-> t.id],
                                  d.quote_tags)})}

---------------------------------------------------------------------------
(* operations.py: get_random_quote *)

\* cursor.fetchall() of the statement get_random_quote runs: the quotes
\* joined to a tag row named tag if tag is given and not empty, else all
RandomRows(d, tag) ==
    IF Truthy(tag)
    THEN {q \in d.quotes :
             \E t \in d.tags :
                 /\ t.name = tag[1]
                 /\ BagIn([quote_id |-> q.id, tag_id |-> t.id], d.quote_tags)}
    ELSE d.quotes

\* seeded fault for C24: rows[0] in place of random.choice(rows)
GetRandomQuoteFirstRow(d, tag) ==
    IF RandomRows(d, tag) = {} THEN {None}
    ELSE {Some(FromRow(row, GetTagsForQuote(d, row.id))) :
              row \in {r \in RandomRows(d, tag) :
                          \A o \in RandomRows(d, tag) : r.id <= o.id}}

\* get_random_quote(db_path, tag): the values it can return, None for no
\* rows and else the quote of any row, random.choice(rows)
GetRandomQuote(d, tag) ==
    IF RandomRows(d, tag) = {} THEN {None}
    ELSE {Some(FromRow(row, GetTagsForQuote(d, row.id))) : row \in RandomRows(d, tag)}

---------------------------------------------------------------------------
(* operations.py: get_statistics *)

\* f"{row[0]} ({row[1]} quotes)"
StatLabel(name, count) == name \o <<" (", ToString(count), " quotes)">>

NotAvailable == <<"N/A">>

\* SELECT COUNT(DISTINCT author) FROM quotes
TotalAuthors(d) == Cardinality({q.author : q \in d.quotes})

\* COUNT(*) of the group of an author in quotes GROUP BY author
AuthorCount(d, author) == Cardinality({q \in d.quotes : q.author = author})

\* the first row of the author groups ORDER BY count DESC LIMIT 1, as the
\* label made of it: any group with the largest count, "N/A" for no row
MostQuotedAuthor(d) ==
    IF d.quotes = {} THEN {NotAvailable}
    ELSE {StatLabel(q.author, AuthorCount(d, q.author)) :
              q \in {r \in d.quotes :
                        \A o \in d.quotes :
                            AuthorCount(d, o.author) <= AuthorCount(d, r.author)}}

\* the groups of tags JOIN quote_tags: the tag rows some quote is joined to
JoinedTagRows(d) == {t \in d.tags : TagCount(d, t) > 0}

\* the first row of the tag groups ORDER BY count DESC LIMIT 1, as the label
\* made of it
MostCommonTag(d) ==
    IF JoinedTagRows(d) = {} THEN {NotAvailable}
    ELSE {StatLabel(t.name, TagCount(d, t)) :
              t \in {r \in JoinedTagRows(d) :
                        \A o \in JoinedTagRows(d) : TagCount(d, o) <= TagCount(d, r)}}

\* get_statistics(db_path): the dicts it can return
GetStatistics(d) ==
    {[total_quotes       |-> Cardinality(d.quotes),
      total_authors      |-> TotalAuthors(d),
      total_tags         |-> Cardinality(d.tags),
      most_quoted_author |-> a,
      most_common_tag    |-> t] : a \in MostQuotedAuthor(d), t \in MostCommonTag(d)}

---------------------------------------------------------------------------
(* schema.py: init_database, check_if_seeded, get_schema_version,          *)
(* migrate_database                                                        *)

\* INSERT INTO schema_version (version), under version INTEGER PRIMARY KEY
InsertSchemaVersion(c, version, time) ==
    IF ~Ok(c) THEN c
    ELSE IF \E r \in c.db.schema_version : r.version = version
         THEN Raise(c, "IntegrityError")
    ELSE Execute(c, [c.db EXCEPT !.schema_version =
             @ \cup {[version |-> version, applied_at |-> time]}])

\* seeded fault for C28: init_database that inserts the version row without
\* the SELECT
DoInitDatabaseAlwaysInsert(d, time, fault) ==
    LET d1 == [d EXCEPT !.file = "schema"]
        c2 == Commit(InsertSchemaVersion(GetConnection(d1, fault),
                                         SCHEMA_VERSION, time))
    IN  [db  |-> Close(d1, c2),
         out |-> IF Ok(c2)
                 THEN Outcome("init_database", [fault |-> fault], "ok", None)
                 ELSE Outcome("init_database", [fault |-> fault], c2.error, None)]

\* init_database(db_path): CREATE TABLE / INDEX IF NOT EXISTS take effect
\* as they run and keep the rows of tables that exist; the version row is
\* inserted in a transaction if the SELECT finds none
DoInitDatabase(d, time, fault) ==
    LET d1 == [d EXCEPT !.file = "schema"]
        c0 == GetConnection(d1, fault)
        c1 == IF \E r \in d1.schema_version : r.version = SCHEMA_VERSION
              THEN c0
              ELSE InsertSchemaVersion(c0, SCHEMA_VERSION, time)
        c2 == Commit(c1)
    IN  [db  |-> Close(d1, c2),
         out |-> IF Ok(c2)
                 THEN Outcome("init_database", [fault |-> fault], "ok", None)
                 ELSE Outcome("init_database", [fault |-> fault], c2.error, None)]

\* seeded fault for C29: True once the quotes table has handed out an id
CheckIfSeededBySequence(d) ==
    IF d.file = "absent" THEN FALSE
    ELSE IF ~HasTables(d) THEN FALSE
    ELSE d.seq.quotes > 0

\* check_if_seeded(db_path): False for no file and, the OperationalError
\* caught, for a file without tables; else COUNT(*) FROM quotes > 0
CheckIfSeeded(d) ==
    IF d.file = "absent" THEN FALSE
    ELSE IF ~HasTables(d) THEN FALSE
    ELSE Cardinality(d.quotes) > 0

\* the largest version of a non-empty set of ledger rows
MaxVersion(rows) ==
    CHOOSE v \in {r.version : r \in rows} : \A r \in rows : r.version <= v

\* get_schema_version(db_path): MAX(version), None for no file, no table,
\* no row or a largest version of 0
GetSchemaVersion(d) ==
    IF d.file = "absent" THEN None
    ELSE IF ~HasTables(d) THEN None
    ELSE IF d.schema_version = {} THEN None
    ELSE IF MaxVersion(d.schema_version) = 0 THEN None
    ELSE Some(MaxVersion(d.schema_version))

\* seeded fault for C30: a migration that records the target version
DoMigrateDatabaseRecording(d, from_version, to_version) ==
    [db  |-> [d EXCEPT !.schema_version =
                 @ \cup {[version |-> to_version, applied_at |-> 0]}],
     out |-> Outcome("migrate_database",
                     [from_version |-> from_version, to_version |-> to_version],
                     "ok", None)]

\* migrate_database(db_path, from_version, to_version)
DoMigrateDatabase(d, from_version, to_version) ==
    [db  |-> d,
     out |-> Outcome("migrate_database",
                     [from_version |-> from_version, to_version |-> to_version],
                     "NotImplementedError", None)]

---------------------------------------------------------------------------
(* seed_data.py: SEED_QUOTES, seed_database *)

\* SEED_QUOTES: entries with distinct texts, one author, a source, a year
\* and tags that the entries share
SeedQuotes ==
    [k \in 1..SeedLen |->
        [text   |-> [j \in 1..k |-> "a"],
         author |-> <<"A">>,
         source |-> Some(<<"s">>),
         year   |-> Some(1979),
         tags   |-> Some(<< <<"x">>, <<"y">> >>)]]

\* add_quote on a path: after the validation, the first statement on a
\* file without tables raises OperationalError, and sqlite3.connect has
\* created the file
AddQuoteOnFile(d, time, a, fault) ==
    IF AddQuoteInvalid(a.text, a.author) \/ HasTables(d)
    THEN DoAddQuote(d, time, a, fault)
    ELSE [db  |-> [d EXCEPT !.file = "empty"],
          out |-> Outcome("add_quote", a, "OperationalError", None)]

\* delete_quote on a path, likewise
DeleteQuoteOnFile(d, quote_id, fault) ==
    IF HasTables(d) THEN DoDeleteQuote(d, quote_id, fault)
    ELSE [db  |-> [d EXCEPT !.file = "empty"],
          out |-> Outcome("delete_quote", [quote_id |-> quote_id],
                          "OperationalError", None)]

\* the loop of seed_database from entry k on: an add_quote that raises is
\* reported and skipped, one that returns is counted
RECURSIVE SeedLoop(_, _, _, _, _)
SeedLoop(d, time, k, faults, added_count) ==
    IF k > Len(SeedQuotes) THEN [db |-> d, added_count |-> added_count]
    ELSE LET r == AddQuoteOnFile(d, time, SeedQuotes[k], faults[k])
         IN  SeedLoop(r.db, time, k + 1, faults,
                      IF r.out.result = "ok" THEN added_count + 1 ELSE added_count)

\* seeded fault for C26: seed_database without the check_if_seeded test
DoSeedDatabaseAlways(d, time, force, faults) ==
    LET a == [force |-> force, faults |-> faults]
        l == SeedLoop(d, time, 1, faults, 0)
    IN  [db  |-> l.db,
         out |-> IF HasTables(l.db)
                 THEN Outcome("seed_database", a, "ok",
                              <<l.added_count, Cardinality(l.db.quotes)>>)
                 ELSE Outcome("seed_database", a, "OperationalError", None)]

\* seed_database(db_path, force): faults[k] is the statement at which the
\* add_quote of entry k fails (0: none); len(get_all_quotes(db_path))
\* raises OperationalError on a file without tables
DoSeedDatabase(d, time, force, faults) ==
    LET a == [force |-> force, faults |-> faults]
    IN  IF ~force /\ CheckIfSeeded(d)
        THEN [db  |-> d,
              out |-> Outcome("seed_database", a, "ok", <<0, Cardinality(d.quotes)>>)]
        ELSE LET l == SeedLoop(d, time, 1, faults, 0)
             IN  [db  |-> l.db,
                  out |-> IF HasTables(l.db)
                          THEN Outcome("seed_database", a, "ok",
                                       <<l.added_count, Cardinality(l.db.quotes)>>)
                          ELSE Outcome("seed_database", a, "OperationalError", None)]

---------------------------------------------------------------------------
(* server.py: setup_database *)

\* the outcome of the seed_database call of setup_database: read_fault is a
\* storage fault in the get_all_quotes that follows the loop
SeedOutcome(s, read_fault) ==
    IF read_fault /\ s.out.result = "ok" THEN "OperationalError" ELSE s.out.result

\* seeded fault for C33: setup_database that seeds before it initializes
DoSetupDatabaseSeedingFirst(d, time, auto_seed, init_fault, faults, read_fault) ==
    LET a == [auto_seed |-> auto_seed, init_fault |-> init_fault,
              faults |-> faults, read_fault |-> read_fault]
        s == IF auto_seed /\ ~CheckIfSeeded(d)
             THEN DoSeedDatabase(d, time, FALSE, faults)
             ELSE [db |-> d, out |-> Outcome("seed_database", None, "ok", None)]
        i == DoInitDatabase(s.db, time, init_fault)
    IN  [db  |-> i.db,
         out |-> IF i.out.result # "ok"
                 THEN Outcome("setup_database", a, i.out.result, None)
                 ELSE Outcome("setup_database", a, "ok",
                              [is_seeded |-> CheckIfSeeded(d),
                               seeding   |-> SeedOutcome(s, read_fault)])]

\* setup_database(): init_database, whose exception is raised again; then
\* check_if_seeded; then, with auto-seed on and no quote stored,
\* seed_database, whose exception is logged and dropped.  The value tells
\* what check_if_seeded returned and how the seeding ended.
DoSetupDatabase(d, time, auto_seed, init_fault, faults, read_fault) ==
    LET a == [auto_seed |-> auto_seed, init_fault |-> init_fault,
              faults |-> faults, read_fault |-> read_fault]
        i == DoInitDatabase(d, time, init_fault)
    IN  IF i.out.result # "ok"
        THEN [db |-> i.db, out |-> Outcome("setup_database", a, i.out.result, None)]
        ELSE IF auto_seed /\ ~CheckIfSeeded(i.db)
        THEN LET s == DoSeedDatabase(i.db, time, FALSE, faults)
             IN  [db  |-> s.db,
                  out |-> Outcome("setup_database", a, "ok",
                                  [is_seeded |-> FALSE,
                                   seeding   |-> SeedOutcome(s, read_fault)])]
        ELSE [db  |-> i.db,
              out |-> Outcome("setup_database", a, "ok",
                              [is_seeded |-> CheckIfSeeded(i.db),
                               seeding   |-> "none"])]

---------------------------------------------------------------------------
(* mcp/resources.py: the resource facade *)

\* s.startswith(p)
StartsWith(s, p) == Len(s) >= Len(p) /\ SubSeq(s, 1, Len(p)) = p

\* s[len(p):]
After(s, p) == SubSeq(s, Len(p) + 1, Len(s))

\* the decimal digits
IsDigit(c) == c \in {"0", "1", "2", "3", "4", "5", "6", "7", "8", "9"}

DigitValue(c) ==
    CASE c = "0" -> 0 [] c = "1" -> 1 [] c = "2" -> 2 [] c = "3" -> 3
      [] c = "4" -> 4 [] c = "5" -> 5 [] c = "6" -> 6 [] c = "7" -> 7
      [] c = "8" -> 8 [] c = "9" -> 9

\* the value of a non-empty run of digits
RECURSIVE DigitsValue(_)
DigitsValue(s) ==
    IF Len(s) = 1 THEN DigitValue(s[1])
    ELSE 10 * DigitsValue(SubSeq(s, 1, Len(s) - 1)) + DigitValue(s[Len(s)])

\* seeded fault for C31: a parse that reads a non-number as 0
ParseIntOrZero(s) ==
    IF s = <<>> \/ \E i \in 1..Len(s) : ~IsDigit(s[i]) THEN Some(0)
    ELSE Some(DigitsValue(s))

\* int(s): surrounding whitespace is dropped, a sign may lead, and at least
\* one digit follows; anything else is a ValueError, here None
ParseInt(s) ==
    LET t == Strip(s)
        signed == t # <<>> /\ Head(t) \in {"+", "-"}
        digits == IF signed THEN Tail(t) ELSE t
    IN  IF digits = <<>> \/ \E i \in 1..Len(digits) : ~IsDigit(digits[i])
        THEN None
        ELSE IF signed /\ Head(t) = "-" THEN Some(0 - DigitsValue(digits))
        ELSE Some(DigitsValue(digits))

IsHexDigit(c) ==
    IsDigit(c) \/ c \in {"a", "b", "c", "d", "e", "f", "A", "B", "C", "D", "E", "F"}

HexValue(c) ==
    CASE IsDigit(c) -> DigitValue(c)
      [] c \in {"a", "A"} -> 10 [] c \in {"b", "B"} -> 11
      [] c \in {"c", "C"} -> 12 [] c \in {"d", "D"} -> 13
      [] c \in {"e", "E"} -> 14 [] c \in {"f", "F"} -> 15

\* the character of the model with ASCII code n
Chr(n) == CHOOSE c \in {" ", "A", "a", "b", "s", "x", "y"} : Code(c) = n

\* urllib.parse.unquote: each %XX with two hex digits is replaced by the
\* character of that code; other characters stay
RECURSIVE Unquote(_)
Unquote(s) ==
    IF s = <<>> THEN <<>>
    ELSE IF Head(s) = "%" /\ Len(s) >= 3 /\ IsHexDigit(s[2]) /\ IsHexDigit(s[3])
    THEN <<Chr(16 * HexValue(s[2]) + HexValue(s[3]))>> \o Unquote(SubSeq(s, 4, Len(s)))
    ELSE <<Head(s)>> \o Unquote(Tail(s))

\* "quote://"
Scheme == <<"q", "u", "o", "t", "e", ":", "/", "/">>

UriAll == Scheme \o <<"a", "l", "l">>

UriIdPrefix == Scheme \o <<"i", "d", "/">>

UriAuthorPrefix == Scheme \o <<"a", "u", "t", "h", "o", "r", "/">>

UriTagPrefix == Scheme \o <<"t", "a", "g", "/">>

UriRandom == Scheme \o <<"r", "a", "n", "d", "o", "m">>

UriStats == Scheme \o <<"s", "t", "a", "t", "s">>

UriTags == Scheme \o <<"t", "a", "g", "s">>

\* _quote_to_dict(quote): the quote without created_at
QuoteToDict(q) ==
    [id |-> q.id, text |-> q.text, author |-> q.author,
     source |-> q.source, year |-> q.year, tags |-> q.tags]

QuotesToDicts(quotes) == [i \in DOMAIN quotes |-> QuoteToDict(quotes[i])]

\* the authors of a list of quotes whose count in the list is the largest
\* and that max() meets first: the dict keeps the order of first occurrence
TopAuthorOf(quotes) ==
    LET count(a) == Cardinality({i \in DOMAIN quotes : quotes[i].author = a})
        first(a) == CHOOSE i \in DOMAIN quotes :
                        /\ quotes[i].author = a
                        /\ \A j \in 1..(i - 1) : quotes[j].author # a
        top == CHOOSE i \in DOMAIN quotes :
                   /\ first(quotes[i].author) = i
                   /\ \A j \in DOMAIN quotes :
                          \/ count(quotes[j].author) < count(quotes[i].author)
                          \/ /\ count(quotes[j].author) = count(quotes[i].author)
                             /\ first(quotes[j].author) >= i
    IN  StatLabel(quotes[top].author, count(quotes[top].author))

\* max(tags, key=lambda x: x[1]): the first pair with the largest count
TopTagOf(tags) ==
    LET top == CHOOSE i \in DOMAIN tags :
                   /\ \A j \in DOMAIN tags : tags[j][2] <= tags[i][2]
                   /\ \A j \in 1..(i - 1) : tags[j][2] < tags[i][2]
    IN  StatLabel(tags[top][1], tags[top][2])

\* _get_stats(db_path): the dicts it can return, computed from the lists of
\* get_all_quotes and list_all_tags
GetStats(d) ==
    {[total_quotes       |-> Len(quotes),
      total_authors      |-> Cardinality({quotes[i].author : i \in DOMAIN quotes}),
      total_tags         |-> Len(ListAllTags(d)),
      most_quoted_author |-> IF quotes = <<>> THEN NotAvailable
                             ELSE TopAuthorOf(quotes),
      most_common_tag    |-> IF ListAllTags(d) = <<>> THEN NotAvailable
                             ELSE TopTagOf(ListAllTags(d))] :
        quotes \in GetAllQuotes(d)}

\* the outcome of read_resource_content: the data handed to json.dumps, or
\* the ValueError raised with its message and the text it names
Content(uri, data) == Outcome("read_resource", [uri |-> uri], "ok", data)

ResourceError(uri, message, detail) ==
    Outcome("read_resource", [uri |-> uri], "ValueError",
            [message |-> message, detail |-> detail])

\* read_resource_content(uri, db_path): the outcomes it can have
ReadResourceContent(d, uri) ==
    IF uri = UriAll
    THEN {Content(uri, QuotesToDicts(quotes)) : quotes \in GetAllQuotes(d)}
    ELSE IF StartsWith(uri, UriIdPrefix)
    THEN LET quote_id == ParseInt(After(uri, UriIdPrefix))
         IN  IF quote_id = None
             THEN {ResourceError(uri, "Invalid quote ID", After(uri, UriIdPrefix))}
             ELSE IF GetQuoteById(d, quote_id[1]) = None
             THEN {ResourceError(uri, "Quote not found", quote_id[1])}
             ELSE {Content(uri, QuoteToDict(GetQuoteById(d, quote_id[1])[1]))}
    ELSE IF StartsWith(uri, UriAuthorPrefix)
    THEN {Content(uri, QuotesToDicts(quotes)) :
             quotes \in SearchQuotes(d, None,
                                     Some(Unquote(After(uri, UriAuthorPrefix))), None)}
    ELSE IF StartsWith(uri, UriTagPrefix)
    THEN {Content(uri, QuotesToDicts(quotes)) :
             quotes \in SearchQuotes(d, None, None,
                                     Some(<<Unquote(After(uri, UriTagPrefix))>>))}
    ELSE IF uri = UriRandom
    THEN {IF quote = None
          THEN Content(uri, [error |-> "No quotes available"])
          ELSE Content(uri, QuoteToDict(quote[1])) : quote \in GetRandomQuote(d, None)}
    ELSE IF uri = UriStats
    THEN {Content(uri, stats) : stats \in GetStats(d)}
    ELSE IF uri = UriTags
    THEN {Content(uri, [i \in DOMAIN ListAllTags(d) |->
                           [name  |-> ListAllTags(d)[i][1],
                            count |-> ListAllTags(d)[i][2]]])}
    ELSE {ResourceError(uri, "Unknown resource URI", uri)}

---------------------------------------------------------------------------
(* mcp/tools.py: the update_quote tool *)

\* the fields handle_update_quote passes on
UpdateFields == {"text", "author", "source", "year", "tags"}

\* update_kwargs: the entries of arguments for those fields
UpdateKwargs(arguments) ==
    [f \in DOMAIN arguments \cap UpdateFields |-> arguments[f]]

\* the list of one text content a handler returns, and the store call made
ToolText(arguments, text, store) ==
    Outcome("handle_update_quote", arguments, "ok", [text |-> text, store |-> store])

\* seeded fault for C32: the handler without the `if not update_kwargs` test
HandleUpdateQuoteNoFieldCheck(d, arguments, fault) ==
    LET r == DoUpdateQuote(d, arguments.id, UpdateKwargs(arguments), fault)
    IN  [db  |-> r.db,
         out |-> IF r.out.result = "InvalidInputError"
                 THEN ToolText(arguments, <<"Error: ", "InvalidInputError">>,
                               Some(r.out))
                 ELSE IF r.out.result # "ok"
                 THEN Outcome("handle_update_quote", arguments, r.out.result, None)
                 ELSE IF ~r.out.value
                 THEN ToolText(arguments,
                               <<"Error: Quote with ID ", arguments.id, " not found">>,
                               Some(r.out))
                 ELSE ToolText(arguments,
                               <<"Quote ", arguments.id, " updated successfully">>,
                               Some(r.out))]

\* handle_update_quote(db_path, arguments): without a field to update the
\* error text is returned before db_update_quote is called; else the text
\* tells what db_update_quote returned or that it raised InvalidInputError,
\* and any other exception leaves the handler
HandleUpdateQuote(d, arguments, fault) ==
    IF DOMAIN UpdateKwargs(arguments) = {}
    THEN [db  |-> d,
          out |-> ToolText(arguments, <<"Error: No fields specified for update">>, None)]
    ELSE LET r == DoUpdateQuote(d, arguments.id, UpdateKwargs(arguments), fault)
         IN  [db  |-> r.db,
              out |-> IF r.out.result = "InvalidInputError"
                      THEN ToolText(arguments, <<"Error: ", "InvalidInputError">>,
                                    Some(r.out))
                      ELSE IF r.out.result # "ok"
                      THEN Outcome("handle_update_quote", arguments, r.out.result, None)
                      ELSE IF ~r.out.value
                      THEN ToolText(arguments,
                                    <<"Error: Quote with ID ", arguments.id, " not found">>,
                                    Some(r.out))
                      ELSE ToolText(arguments,
                                    <<"Quote ", arguments.id, " updated successfully">>,
                                    Some(r.out))]

---------------------------------------------------------------------------
(* Concurrent callers.  A call runs statement by statement on a connection *)
(* of its own.  sqlite3 opens a transaction before the first INSERT,       *)
(* UPDATE or DELETE of a connection and not before a SELECT: a SELECT      *)
(* outside a transaction reads the committed file.  The first write takes  *)
(* the write lock of the file (waiting while another connection holds it)  *)
(* and keeps it until commit or close, so the statements from the first    *)
(* write to the commit of a call are one step; the SELECTs before it are   *)
(* steps of their own.                                                     *)

Callers == {1, 2}

\* a caller with no call in progress
Idle ==
    [pc |-> "idle", call |-> None, conn |-> "none", local |-> None,
     result |-> "none", value |-> None]

\* the call stands before the statement named pc; conn is "open" from
\* _get_connection on
At(call, pc, local) ==
    [pc |-> pc, call |-> call, conn |-> "open", local |-> local,
     result |-> "none", value |-> None]

\* seeded fault for C34: an exception that passes by conn.close()
RaisedHoldingConnection(proc, error) ==
    [proc EXCEPT !.pc = "done", !.result = error]

\* an exception leaves the call: finally: conn.close() runs if the
\* connection was opened
Raised(proc, error) ==
    [proc EXCEPT !.pc = "done", !.result = error,
                 !.conn = IF @ = "open" THEN "closed" ELSE @]

\* return value, through finally: conn.close()
Returned(proc, value) ==
    [proc EXCEPT !.pc = "done", !.result = "ok", !.value = value,
                 !.conn = IF @ = "open" THEN "closed" ELSE @]

\* the end of a call made in one step, from the outcome the store
\* operation has
Ended(proc, out) ==
    IF out.result = "ok" THEN Returned(proc, out.value) ELSE Raised(proc, out.result)

\* the call begins: the validation of add_quote, update_quote and
\* add_tag_to_quote raises before a connection is opened; seed_database
\* opens none of its own
Begun(call) ==
    CASE call.op = "add_quote" ->
            IF AddQuoteInvalid(call.a.text, call.a.author)
            THEN Raised([Idle EXCEPT !.call = call], "InvalidInputError")
            ELSE At(call, "insert_quote", None)
      [] call.op = "update_quote" ->
            IF UpdateQuoteInvalid(call.kw)
            THEN Raised([Idle EXCEPT !.call = call], "InvalidInputError")
            ELSE At(call, "select_quote", None)
      [] call.op = "add_tag_to_quote" ->
            IF Blank(call.tag)
            THEN Raised([Idle EXCEPT !.call = call], "InvalidInputError")
            ELSE At(call, "select_quote", None)
      [] call.op = "delete_quote" -> At(call, "delete_quote", None)
      [] call.op = "get_quote_by_id" -> At(call, "select_by_id", None)
      [] call.op = "seed_database" ->
            [Idle EXCEPT !.call = call, !.pc = "check_if_seeded"]

\* add_quote from its INSERT to its commit; the quote is fetched after it
AddQuoteWrite(d, time, proc, fault) ==
    LET a  == proc.call.a
        c0 == GetConnection(d, fault)
        c1 == InsertQuote(c0, Strip(a.text), Strip(a.author), a.source, a.year, time)
        quote_id == c1.db.seq.quotes
        c2 == AddTags(c1, quote_id, TagList(a.tags))
        c3 == Commit(c2)
    IN  [db   |-> Close(d, c3),
         proc |-> IF Ok(c3)
                  THEN [proc EXCEPT !.pc = "select_added", !.local = quote_id]
                  ELSE Raised(proc, c3.error)]

\* add_quote, "Fetch the created quote": Quote.from_row(row, tag_names)
\* subscripts row, which is None if the row is gone
AddQuoteFetch(d, proc) ==
    [db   |-> d,
     proc |-> IF QuoteExists(d, proc.local)
              THEN Returned(proc, FromRow(QuoteRow(d, proc.local),
                                          TagNames(TagList(proc.call.a.tags))))
              ELSE Raised(proc, "TypeError")]

\* "Check if quote exists" of update_quote and add_tag_to_quote
SelectQuote(d, proc) ==
    [db   |-> d,
     proc |-> IF ~QuoteExists(d, proc.call.quote_id) THEN Returned(proc, FALSE)
              ELSE IF proc.call.op = "update_quote"
              THEN [proc EXCEPT !.pc = "update_quote"]
              ELSE [proc EXCEPT !.pc = "select_tag"]]

\* update_quote from its first write to its commit
UpdateQuoteWrite(d, proc, fault) ==
    LET c0 == GetConnection(d, fault)
        c1 == UpdateQuoteRow(c0, proc.call.quote_id, proc.call.kw)
        c2 == UpdateQuoteTags(c1, proc.call.quote_id, proc.call.kw)
        c3 == Commit(c2)
    IN  [db   |-> Close(d, c3),
         proc |-> IF Ok(c3) THEN Returned(proc, TRUE) ELSE Raised(proc, c3.error)]

\* _get_or_create_tag of add_tag_to_quote, the SELECT: the id found, or on
\* to the INSERT
SelectTag(d, proc) ==
    LET ids == TagIdsNamed(d, Strip(proc.call.tag))
    IN  [db   |-> d,
         proc |-> IF ids # {}
                  THEN [proc EXCEPT !.pc = "select_association",
                                    !.local = CHOOSE i \in ids : TRUE]
                  ELSE [proc EXCEPT !.pc = "insert_tag"]]

\* add_tag_to_quote from the INSERT of the tag to the commit
InsertTagWrite(d, proc, fault) ==
    LET c0 == GetConnection(d, fault)
        c1 == InsertTag(c0, Strip(proc.call.tag))
        row == [quote_id |-> proc.call.quote_id, tag_id |-> c1.db.seq.tags]
        c2 == IF Ok(c1) /\ BagIn(row, c1.db.quote_tags) THEN c1
              ELSE InsertQuoteTag(c1, row.quote_id, row.tag_id)
        c3 == Commit(c2)
    IN  [db   |-> Close(d, c3),
         proc |-> IF Ok(c3) THEN Returned(proc, TRUE) ELSE Raised(proc, c3.error)]

\* add_tag_to_quote, "Check if association already exists"
SelectAssociation(d, proc) ==
    [db   |-> d,
     proc |-> IF BagIn([quote_id |-> proc.call.quote_id, tag_id |-> proc.local],
                       d.quote_tags)
              THEN Returned(proc, TRUE)
              ELSE [proc EXCEPT !.pc = "insert_association"]]

\* add_tag_to_quote, "Add tag to quote" and the commit
InsertAssociationWrite(d, proc, fault) ==
    LET c0 == GetConnection(d, fault)
        c1 == InsertQuoteTag(c0, proc.call.quote_id, proc.local)
        c2 == Commit(c1)
    IN  [db   |-> Close(d, c2),
         proc |-> IF Ok(c2) THEN Returned(proc, TRUE) ELSE Raised(proc, c2.error)]

\* delete_quote, one write and its commit
DeleteQuoteWrite(d, proc, fault) ==
    LET r == DoDeleteQuote(d, proc.call.quote_id, fault)
    IN  [db |-> r.db, proc |-> Ended(proc, r.out)]

\* seed_database(db_path, force): check_if_seeded, then the skip branch or
\* the loop
SeedCheck(d, proc) ==
    [db   |-> d,
     proc |-> IF ~proc.call.force /\ CheckIfSeeded(d)
              THEN [proc EXCEPT !.pc = "get_all_quotes", !.local = [k |-> 0, added_count |-> 0]]
              ELSE [proc EXCEPT !.pc = "add_quote", !.local = [k |-> 1, added_count |-> 0]]]

\* one add_quote of the loop of seed_database, a call of its own
SeedAdd(d, time, proc) ==
    LET r == AddQuoteOnFile(d, time, SeedQuotes[proc.local.k], 0)
        l == [k |-> proc.local.k + 1,
              added_count |-> IF r.out.result = "ok" THEN proc.local.added_count + 1
                              ELSE proc.local.added_count]
    IN  [db   |-> r.db,
         proc |-> [proc EXCEPT !.local = l,
                               !.pc = IF l.k > Len(SeedQuotes) THEN "get_all_quotes"
                                      ELSE "add_quote"]]

\* len(get_all_quotes(db_path)) and the return of seed_database
SeedCount(d, proc) ==
    [db   |-> d,
     proc |-> IF HasTables(d)
              THEN Returned(proc, <<proc.local.added_count, Cardinality(d.quotes)>>)
              ELSE Raised(proc, "OperationalError")]

\* the next statement of a call in progress
Statement(d, time, proc, fault) ==
    CASE proc.pc = "insert_quote"       -> AddQuoteWrite(d, time, proc, fault)
      [] proc.pc = "select_added"       -> AddQuoteFetch(d, proc)
      [] proc.pc = "select_quote"       -> SelectQuote(d, proc)
      [] proc.pc = "update_quote"       -> UpdateQuoteWrite(d, proc, fault)
      [] proc.pc = "select_tag"         -> SelectTag(d, proc)
      [] proc.pc = "insert_tag"         -> InsertTagWrite(d, proc, fault)
      [] proc.pc = "select_association" -> SelectAssociation(d, proc)
      [] proc.pc = "insert_association" -> InsertAssociationWrite(d, proc, fault)
      [] proc.pc = "delete_quote"       -> DeleteQuoteWrite(d, proc, fault)
      [] proc.pc = "select_by_id"       ->
             [db |-> d, proc |-> Returned(proc, GetQuoteById(d, proc.call.quote_id))]
      [] proc.pc = "check_if_seeded"    -> SeedCheck(d, proc)
      [] proc.pc = "add_quote"          -> SeedAdd(d, time, proc)
      [] proc.pc = "get_all_quotes"     -> SeedCount(d, proc)

\* the statements that write
WritePoints ==
    {"insert_quote", "update_quote", "insert_tag", "insert_association", "delete_quote"}

---------------------------------------------------------------------------
(* The calls the model makes *)

QuoteIds == 1..MaxQuotes

FaultPoints == 0..MaxFault

\* tag lists passed to add_quote: none, one name, two names out of order
\* with padding, blank names among a real one, one name twice after stripping
AddTagLists ==
    {None,
     Some(<< <<"x">> >>),
     Some(<< <<"y">>, <<" ", "x", " ">> >>),
     Some(<< <<>>, <<" ">>, <<"y">> >>),
     Some(<< <<"x">>, <<"x", " ">> >>)}

ValidAddCalls ==
    {[text |-> <<" ", "a", " ">>, author |-> <<"A", " ">>,
      source |-> None, year |-> None, tags |-> t] : t \in AddTagLists}
    \cup
    {[text |-> <<"b">>, author |-> <<"a">>,
      source |-> Some(<<"s">>), year |-> Some(1979), tags |-> t] : t \in AddTagLists}

InvalidAddCalls ==
    {[text |-> t, author |-> <<"A">>, source |-> None, year |-> None,
      tags |-> Some(<< <<"x">> >>)] : t \in {<<>>, <<" ">>}}
    \cup
    {[text |-> <<"b">>, author |-> a, source |-> None, year |-> None,
      tags |-> Some(<< <<"x">> >>)] : a \in {<<>>, <<" ">>}}

AddCalls == ValidAddCalls \cup InvalidAddCalls

\* keyword arguments passed to update_quote
UpdateCalls ==
    {[tags |-> Some(<<>>)],
     [tags |-> None],
     [tags |-> Some(<< <<"y">> >>)],
     [tags |-> Some(<< <<" ", "x">>, <<>> >>)],
     [tags |-> Some(<< <<"y">>, <<"y">> >>)],
     [text |-> <<"b", " ">>],
     [text |-> <<" ">>, tags |-> Some(<< <<"y">> >>)]}

\* the calls made when storage faults are injected
FaultAddCalls ==
    {[text |-> <<"b">>, author |-> <<"a">>, source |-> None, year |-> None,
      tags |-> t] :
        t \in {None, Some(<< <<"y">>, <<"x">> >>), Some(<< <<"x">>, <<"x">> >>)}}

FaultUpdateCalls ==
    {[text |-> <<"a">>],
     [text |-> <<"a">>, tags |-> Some(<< <<"x">> >>)],
     [tags |-> Some(<< <<"y">>, <<"y">> >>)]}

TagInputs == {<<>>, <<" ">>, <<"x", " ">>, <<"y">>}

\* the calls made when single fields of a quote are edited: add_quote of a
\* quote without and of one with source, year and a tag
EditAddCalls ==
    {[text |-> <<" ", "a", " ">>, author |-> <<"A", " ">>,
      source |-> None, year |-> None, tags |-> None],
     [text |-> <<"b">>, author |-> <<"a">>,
      source |-> Some(<<"s">>), year |-> Some(1979), tags |-> Some(<< <<"x">> >>)]}

\* keyword arguments of update_quote: none, padded strings, a column set to
\* a value, columns set to None and the tags cleared, blank strings
EditUpdateCalls ==
    {<<>>,
     [text |-> <<" ", "b", " ">>, author |-> <<"a", " ">>],
     [year |-> Some(42)],
     [source |-> None, tags |-> Some(<<>>)],
     [text |-> <<>>, year |-> Some(42)],
     [author |-> <<" ">>]}

\* the calls made when the store is read: add_quote of two quotes whose
\* authors differ in case only, one of them with a tag
ReadAddCalls ==
    {[text |-> <<"a">>, author |-> <<"A">>,
      source |-> None, year |-> None, tags |-> None],
     [text |-> <<"b">>, author |-> <<"a">>,
      source |-> None, year |-> None, tags |-> Some(<< <<"x">> >>)]}

AuthorInputs == {<<"a">>, <<"A">>, <<"b">>}

\* search_quotes without filters, with empty filters, with each filter
\* alone, in other case, with the LIKE
\* wildcard _ as the query, and with all filters together
ReadSearchCalls ==
    {[query |-> None, author |-> None, tags |-> None],
     [query |-> Some(<<>>), author |-> Some(<<>>), tags |-> Some(<<>>)],
     [query |-> Some(<<"A">>), author |-> None, tags |-> None],
     [query |-> Some(<<"b">>), author |-> None, tags |-> None],
     [query |-> Some(<<"_">>), author |-> None, tags |-> None],
     [query |-> None, author |-> Some(<<"A">>), tags |-> None],
     [query |-> None, author |-> None, tags |-> Some(<< <<"x">> >>)],
     [query |-> Some(<<"a">>), author |-> Some(<<"a">>),
      tags |-> Some(<< <<"x">> >>)]}

\* the optional tag of get_random_quote
RandomTagInputs == {None, Some(<<>>), Some(<<"x">>), Some(<<"y">>)}

\* no add_quote of seed_database fails
NoFaults == [k \in 1..SeedLen |-> 0]

\* the statement at which each add_quote of seed_database fails: none, the
\* INSERT of the quote, the statement after it
SeedFaults == [1..SeedLen -> {0, 1, 2}]

\* from_version and to_version of migrate_database
Versions == {1, 2}

\* the URIs read: each resource, ids that are stored, missing, negative,
\* padded, not a number and empty, an escaped tag name, and URIs of no
\* resource
ResourceUris ==
    {UriAll, UriRandom, UriStats, UriTags,
     UriIdPrefix \o <<"1">>,
     UriIdPrefix \o <<"2">>,
     UriIdPrefix \o <<"9">>,
     UriIdPrefix \o <<"-", "1">>,
     UriIdPrefix \o <<" ", "1">>,
     UriIdPrefix \o <<"x">>,
     UriIdPrefix \o <<"1", "x">>,
     UriIdPrefix,
     UriAuthorPrefix \o <<"A">>,
     UriTagPrefix \o <<"x">>,
     UriTagPrefix \o <<"%", "7", "8">>,
     UriAll \o <<"/">>,
     Scheme \o <<"i", "d">>,
     Scheme \o <<"x">>,
     Scheme,
     <<"x">>}

\* the arguments of the update_quote tool besides the id: none, a key the
\* handler does not pass on, and fields that are valid, blank and None
ToolUpdateArguments ==
    {<<>>,
     [note |-> <<"b">>],
     [text |-> <<"b">>],
     [text |-> <<" ">>],
     [source |-> None],
     [tags |-> Some(<< <<"y">> >>), note |-> <<"b">>]}

\* the calls of concurrent callers: each writing operation, on a quote that
\* may be stored, with a tag name that may be stored, and with blank input
ConcurrentCalls ==
    {[op |-> "add_tag_to_quote", quote_id |-> 1, tag |-> <<"y">>],
     [op |-> "add_tag_to_quote", quote_id |-> 2, tag |-> <<"y", " ">>],
     [op |-> "add_tag_to_quote", quote_id |-> 2, tag |-> <<"x">>],
     [op |-> "add_tag_to_quote", quote_id |-> 1, tag |-> <<" ">>],
     [op |-> "update_quote", quote_id |-> 1, kw |-> [tags |-> Some(<< <<"y">> >>)]],
     [op |-> "update_quote", quote_id |-> 1, kw |-> [text |-> <<"b">>]],
     [op |-> "update_quote", quote_id |-> 1, kw |-> [text |-> <<" ">>]],
     [op |-> "add_quote",
      a |-> [text |-> <<"b">>, author |-> <<"a">>, source |-> None, year |-> None,
             tags |-> Some(<< <<"y">> >>)]],
     [op |-> "delete_quote", quote_id |-> 1],
     [op |-> "get_quote_by_id", quote_id |-> 1]}

\* the seed_database calls of concurrent callers
SeedCalls == {[op |-> "seed_database", force |-> f] : f \in BOOLEAN}

SearchCalls ==
    {[query |-> None, author |-> None, tags |-> t] :
        t \in {None,
               Some(<< <<"x">> >>),
               Some(<< <<"x">>, <<"y">> >>),
               Some(<< <<"x">>, <<"x">> >>)}}

---------------------------------------------------------------------------
(* The state machine *)

Init ==
    /\ db = EmptyDb
    /\ now = 0
    /\ last = Outcome("init_database", [fault |-> 0], "ok", None)
    /\ procs = [p \in Callers |-> Idle]

\* a call of a store operation: the file and the outcome it leaves
Call(r) ==
    /\ db' = r.db
    /\ last' = r.out
    /\ UNCHANGED <<now, procs>>

AddQuote(a, fault) ==
    /\ db.seq.quotes < MaxQuotes
    /\ Call(DoAddQuote(db, now, a, fault))

UpdateQuote(quote_id, kw, fault) == Call(DoUpdateQuote(db, quote_id, kw, fault))

DeleteQuote(quote_id, fault) == Call(DoDeleteQuote(db, quote_id, fault))

AddTagToQuote(quote_id, tag, fault) ==
    Call(DoAddTagToQuote(db, quote_id, tag, fault))

GetQuote(quote_id) ==
    Call([db |-> db,
          out |-> Outcome("get_quote_by_id", [quote_id |-> quote_id], "ok",
                          GetQuoteById(db, quote_id))])

Search(a) ==
    \E r \in SearchQuotes(db, a.query, a.author, a.tags) :
        Call([db |-> db, out |-> Outcome("search_quotes", a, "ok", r)])

GetAll ==
    \E r \in GetAllQuotes(db) :
        Call([db |-> db, out |-> Outcome("get_all_quotes", None, "ok", r)])

GetByAuthor(author) ==
    \E r \in GetQuotesByAuthor(db, author) :
        Call([db |-> db,
              out |-> Outcome("get_quotes_by_author", [author |-> author], "ok", r)])

GetByTag(tag) ==
    \E r \in GetQuotesByTag(db, tag) :
        Call([db |-> db,
              out |-> Outcome("get_quotes_by_tag", [tag |-> tag], "ok", r)])

Random(tag) ==
    \E r \in GetRandomQuote(db, tag) :
        Call([db |-> db,
              out |-> Outcome("get_random_quote", [tag |-> tag], "ok", r)])

Statistics ==
    \E r \in GetStatistics(db) :
        Call([db |-> db, out |-> Outcome("get_statistics", None, "ok", r)])

ListTags ==
    Call([db |-> db, out |-> Outcome("list_all_tags", None, "ok", ListAllTags(db))])

\* seed_database; a run that inserts is made while ids are left for it
Seed(force, faults) ==
    /\ (force \/ ~CheckIfSeeded(db)) =>
           db.seq.quotes + SeedLen <= MaxSeeds * SeedLen
    /\ Call(DoSeedDatabase(db, now, force, faults))

InitDatabase(fault) == Call(DoInitDatabase(db, now, fault))

IsSeeded ==
    Call([db |-> db, out |-> Outcome("check_if_seeded", None, "ok", CheckIfSeeded(db))])

SchemaVersion ==
    Call([db |-> db,
          out |-> Outcome("get_schema_version", None, "ok", GetSchemaVersion(db))])

Migrate(from_version, to_version) ==
    Call(DoMigrateDatabase(db, from_version, to_version))

AddQuoteOnPath(a) ==
    /\ db.seq.quotes < MaxQuotes
    /\ Call(AddQuoteOnFile(db, now, a, 0))

DeleteQuoteOnPath(quote_id) == Call(DeleteQuoteOnFile(db, quote_id, 0))

Setup(auto_seed, init_fault, faults, read_fault) ==
    Call(DoSetupDatabase(db, now, auto_seed, init_fault, faults, read_fault))

UpdateTool(id, a, fault) ==
    Call(HandleUpdateQuote(db, [f \in DOMAIN a \cup {"id"} |->
                                   IF f = "id" THEN id ELSE a[f]], fault))

ReadResource(uri) ==
    \E r \in ReadResourceContent(db, uri) : Call([db |-> db, out |-> r])

\* a call made while no concurrent call is in progress
Prepare(a) ==
    /\ \A p \in Callers : procs[p].pc = "idle"
    /\ AddQuote(a, 0)

\* caller p begins a call
Begin(p, call) ==
    /\ procs[p].pc = "idle"
    /\ procs' = [procs EXCEPT ![p] = Begun(call)]
    /\ UNCHANGED <<db, now, last>>

\* the call of caller p runs its next statement; a write can meet a
\* storage fault
Step(p) ==
    /\ procs[p].pc \notin {"idle", "done"}
    /\ \E fault \in (IF procs[p].pc \in WritePoints THEN 0..1 ELSE {0}) :
           LET r == Statement(db, now, procs[p], fault)
           IN  /\ db' = r.db
               /\ procs' = [procs EXCEPT ![p] = r.proc]
    /\ UNCHANGED <<now, last>>

\* a second passes
Tick ==
    /\ now < MaxTime
    /\ now' = now + 1
    /\ UNCHANGED <<db, last, procs>>

\* the calls of a run in which the storage engine never fails
Next ==
    \/ \E a \in AddCalls : AddQuote(a, 0)
    \/ \E id \in QuoteIds, kw \in UpdateCalls : UpdateQuote(id, kw, 0)
    \/ \E id \in QuoteIds : DeleteQuote(id, 0)
    \/ \E id \in QuoteIds, t \in TagInputs : AddTagToQuote(id, t, 0)
    \/ \E id \in QuoteIds : GetQuote(id)
    \/ \E a \in SearchCalls : Search(a)

Spec == Init /\ [][Next]_vars

\* the mutating calls of a run in which a write statement or the commit of
\* a call can fail
NextFault ==
    \/ \E a \in FaultAddCalls, f \in FaultPoints : AddQuote(a, f)
    \/ \E id \in QuoteIds, kw \in FaultUpdateCalls, f \in FaultPoints :
           UpdateQuote(id, kw, f)
    \/ \E id \in QuoteIds, f \in FaultPoints : DeleteQuote(id, f)
    \/ \E id \in QuoteIds, f \in FaultPoints : AddTagToQuote(id, <<"y">>, f)

SpecFault == Init /\ [][NextFault]_vars

\* the calls of a run that edits the fields of quotes
NextEdit ==
    \/ \E a \in EditAddCalls : AddQuote(a, 0)
    \/ \E id \in QuoteIds, kw \in EditUpdateCalls : UpdateQuote(id, kw, 0)
    \/ \E id \in QuoteIds : DeleteQuote(id, 0)

SpecEdit == Init /\ [][NextEdit]_vars

\* the calls of a run that adds, tags and deletes quotes while the clock
\* runs and reads the store
NextRead ==
    \/ \E a \in ReadAddCalls : AddQuote(a, 0)
    \/ Tick
    \/ GetAll
    \/ \E author \in AuthorInputs : GetByAuthor(author)
    \/ \E tag \in {<<"x">>, <<"y">>} : GetByTag(tag)
    \/ \E a \in ReadSearchCalls : Search(a)
    \/ \E id \in QuoteIds : AddTagToQuote(id, <<"y">>, 0)
    \/ \E id \in QuoteIds : DeleteQuote(id, 0)
    \/ ListTags
    \/ \E tag \in RandomTagInputs : Random(tag)
    \/ Statistics

SpecRead == Init /\ [][NextRead]_vars

\* the calls of a run that seeds an initialized store, adds and deletes
NextSeed ==
    \/ \E force \in BOOLEAN : Seed(force, NoFaults)
    \/ \E a \in ReadAddCalls : AddQuote(a, 0)
    \/ \E id \in QuoteIds : DeleteQuote(id, 0)

SpecSeed == Init /\ [][NextSeed]_vars

\* the resource facade over a store that quotes are added to, tagged in and
\* deleted from
NextResource ==
    \/ \E a \in ReadAddCalls : AddQuote(a, 0)
    \/ \E id \in QuoteIds : AddTagToQuote(id, <<"y">>, 0)
    \/ \E id \in QuoteIds : DeleteQuote(id, 0)
    \/ \E uri \in ResourceUris : ReadResource(uri)
    \/ Statistics

SpecResource == Init /\ [][NextResource]_vars

\* the update_quote tool over a store that quotes are added to and deleted
\* from
NextTool ==
    \/ \E a \in EditAddCalls : AddQuote(a, 0)
    \/ \E id \in QuoteIds : DeleteQuote(id, 0)
    \/ \E id \in QuoteIds, a \in ToolUpdateArguments, f \in 0..1 :
           UpdateTool(id, a, f)

SpecTool == Init /\ [][NextTool]_vars

\* a path at which no file exists yet
InitNoFile ==
    /\ db = NoFile
    /\ now = 0
    /\ last = Outcome("none", None, "ok", None)
    /\ procs = [p \in Callers |-> Idle]

\* the calls of a run on such a path: the schema functions, add_quote and
\* delete_quote
NextSchema ==
    \/ \E f \in 0..2 : InitDatabase(f)
    \/ IsSeeded
    \/ SchemaVersion
    \/ \E v, w \in Versions : Migrate(v, w)
    \/ \E a \in ReadAddCalls : AddQuoteOnPath(a)
    \/ \E id \in QuoteIds : DeleteQuoteOnPath(id)

SpecSchema == InitNoFile /\ [][NextSchema]_vars

\* seed_database with add_quote calls that fail, before and after
\* init_database
NextSeedFault ==
    \/ InitDatabase(0)
    \/ \E force \in BOOLEAN, faults \in SeedFaults : Seed(force, faults)

SpecSeedFault == InitNoFile /\ [][NextSeedFault]_vars

\* consecutive server starts on a path without a file, with auto-seed on or
\* off and with storage faults in init_database and seed_database
NextSetup ==
    \E auto_seed \in BOOLEAN, init_fault \in 0..1, faults \in SeedFaults,
       read_fault \in BOOLEAN :
        Setup(auto_seed, init_fault, faults, read_fault)

SpecSetup == InitNoFile /\ [][NextSetup]_vars

\* two callers, each making one writing call, on a store prepared with
\* add_quote
NextRace ==
    \/ \E a \in ReadAddCalls : Prepare(a)
    \/ \E p \in Callers, call \in ConcurrentCalls : Begin(p, call)
    \/ \E p \in Callers : Step(p)

SpecRace == Init /\ [][NextRace]_vars

\* two callers, each seeding once, on an initialized store without quotes
NextSeedRace ==
    \/ \E p \in Callers, call \in SeedCalls : Begin(p, call)
    \/ \E p \in Callers : Step(p)

SpecSeedRace == Init /\ [][NextSeedRace]_vars

\* the calls of Next with the clock running
NextClock == Next \/ Tick

SpecClock == Init /\ [][NextClock]_vars

---------------------------------------------------------------------------
(* Vocabulary of the properties *)

MutatingOps == {"add_quote", "update_quote", "delete_quote", "add_tag_to_quote"}

\* quote quote_id is associated with a tag row named name
Carries(d, quote_id, name) ==
    \E t \in d.tags :
        /\ t.name = name
        /\ BagIn([quote_id |-> quote_id, tag_id |-> t.id], d.quote_tags)

\* the names of the tags quote quote_id is associated with
CarriedNames(d, quote_id) == {t.name : t \in {u \in d.tags : Carries(d, quote_id, u.name)}}

\* s is empty or consists of blanks
OnlySpaces(s) == \A i \in 1..Len(s) : s[i] = " "

\* r is s without its leading and trailing blanks
IsTrimOf(r, s) ==
    /\ r # <<>>
    /\ r[1] # " "
    /\ r[Len(r)] # " "
    /\ \E i \in 0..Len(s) :
           /\ i + Len(r) <= Len(s)
           /\ SubSeq(s, i + 1, i + Len(r)) = r
           /\ \A k \in (1..i) \cup ((i + Len(r) + 1)..Len(s)) : s[k] = " "

\* the non-empty trimmed names of a list of supplied names
TrimmedNames(tags) ==
    {r \in UNION {{SubSeq(tags[k], i, j) : i, j \in 1..Len(tags[k])} :
                    k \in 1..Len(tags)} :
        \E k \in 1..Len(tags) : IsTrimOf(r, tags[k])}

\* some name occurs twice in the list once the names are trimmed
RepeatsAName(tags) ==
    \E i, j \in 1..Len(tags) :
        /\ i < j
        /\ \E r \in TrimmedNames(tags) : IsTrimOf(r, tags[i]) /\ IsTrimOf(r, tags[j])

\* the last call was add_quote with a text and an author that are not blank
LastIsValidAdd ==
    /\ last.op = "add_quote"
    /\ ~OnlySpaces(last.args.text)
    /\ ~OnlySpaces(last.args.author)

---------------------------------------------------------------------------
(* C1: search(tags = L), for a non-empty list L that may repeat a name,    *)
(* returns exactly the quotes that carry every distinct name of L.         *)
C1_SearchReturnsQuotesWithEveryTag ==
    (/\ last.op = "search_quotes"
     /\ last.args.query = None
     /\ last.args.author = None
     /\ Truthy(last.args.tags))
    => {last.value[i].id : i \in DOMAIN last.value}
         = {q.id : q \in {r \in db.quotes :
                            \A n \in Range(last.args.tags[1]) : Carries(db, r.id, n)}}

(* C2: no two tag rows share a name, and a name referenced from two        *)
(* different quotes is one tag row associated with both: a call that adds  *)
(* an existing name to another quote succeeds and uses the existing row.   *)
C2_TagNamesUnique ==
    /\ \A t1, t2 \in db.tags : t1.name = t2.name => t1 = t2
    /\ (/\ last.op = "add_tag_to_quote"
        /\ ~OnlySpaces(last.args.tag)
        /\ QuoteExists(db, last.args.quote_id))
       => /\ last.result = "ok"
          /\ last.value = TRUE
          /\ \E t \in db.tags :
                /\ IsTrimOf(t.name, last.args.tag)
                /\ BagIn([quote_id |-> last.args.quote_id, tag_id |-> t.id],
                         db.quote_tags)

\* two quotes carry the name x, the second one through add_tag_to_quote
C2_Witness ==
    /\ last.op = "add_tag_to_quote"
    /\ last.result = "ok"
    /\ \E q1, q2 \in db.quotes :
          /\ q1.id # q2.id
          /\ q2.id = last.args.quote_id
          /\ Carries(db, q1.id, <<"x">>)
          /\ Carries(db, q2.id, <<"x">>)
    /\ Cardinality({t \in db.tags : t.name = <<"x">>}) = 1

(* C3: the association table holds at most one row per (quote id, tag id)  *)
(* pair, and every row refers to a quote row and a tag row that exist.     *)
C3_AssociationsSound ==
    \A r \in BagToSet(db.quote_tags) :
        /\ CopiesIn(r, db.quote_tags) = 1
        /\ \E q \in db.quotes : q.id = r.quote_id
        /\ \E t \in db.tags : t.id = r.tag_id

\* a quote has just been deleted, a tag is left without quotes and another
\* quote still has associations
C3_Witness ==
    /\ last.op = "delete_quote"
    /\ last.value = TRUE
    /\ \E t \in db.tags : \A q \in db.quotes : ~Carries(db, q.id, t.name)
    /\ BagToSet(db.quote_tags) # {}

C5_InvalidAddRejected ==
    [][(/\ last'.op = "add_quote"
        /\ OnlySpaces(last'.args.text) \/ OnlySpaces(last'.args.author))
       => (last'.result = "InvalidInputError" /\ db' = db)]_vars

\* add was called with a blank author, a good text and a tag not seen so far
C5_Witness ==
    /\ last.op = "add_quote"
    /\ last.result = "InvalidInputError"
    /\ last.args.author = <<" ">>
    /\ ~OnlySpaces(last.args.text)
    /\ last.args.tags = Some(<< <<"x">> >>)
    /\ db.tags = {}

(* C6: after add returned, getById of the returned id yields a quote with  *)
(* the trimmed text and author, the source and year supplied, and an id    *)
(* that is strictly positive.                                              *)
C6_AddThenGetById ==
    (last.op = "add_quote" /\ last.result = "ok")
    => LET g == GetQuoteById(db, last.value.id)
       IN  /\ g # None
           /\ IsTrimOf(g[1].text, last.args.text)
           /\ IsTrimOf(g[1].author, last.args.author)
           /\ g[1].source = last.args.source
           /\ g[1].year = last.args.year
           /\ g[1].id = last.value.id
           /\ g[1].id > 0

\* add returned for a padded text and a padded author
C6_Witness ==
    /\ last.op = "add_quote"
    /\ last.result = "ok"
    /\ last.args.text = <<" ", "a", " ">>
    /\ last.args.author = <<"A", " ">>

(* C7: on add, every supplied tag name is trimmed and the empty or blank    *)
(* names are dropped without error: the tag set of the quote is exactly    *)
(* the set of non-empty trimmed names supplied.                            *)
C7_AddTagsTrimmedAndFiltered ==
    LastIsValidAdd
    => /\ last.result = "ok"
       /\ CarriedNames(db, last.value.id) = TrimmedNames(TagList(last.args.tags))

(* C8: when the tag list of one add call holds the same name more than     *)
(* once after trimming, the call succeeds and the quote has a single       *)
(* association to that tag.                                                *)
C8_RepeatedNameOneAssociation ==
    (LastIsValidAdd /\ RepeatsAName(TagList(last.args.tags)))
    => /\ last.result = "ok"
       /\ \A n \in TrimmedNames(TagList(last.args.tags)) :
              \E t \in db.tags :
                  /\ t.name = n
                  /\ CopiesIn([quote_id |-> last.value.id, tag_id |-> t.id],
                              db.quote_tags) = 1

(* C9: the quote add returns equals what getById of its id returns right   *)
(* after it, with the tag names sorted whatever order they came in.        *)
C9_AddReturnsStoredQuote ==
    (last.op = "add_quote" /\ last.result = "ok")
    => Some(last.value) = GetQuoteById(db, last.value.id)

(* C10: update of an existing quote with a tags field makes the tag set    *)
(* of the quote the supplied trimmed non-empty names (none for tags = []), *)
(* and update without a tags field leaves the tag set as it was.           *)
C10_UpdateReplacesTags ==
    [][(/\ last'.op = "update_quote"
        /\ QuoteExists(db, last'.args.quote_id)
        /\ "text" \in DOMAIN last'.args.kwargs => ~OnlySpaces(last'.args.kwargs.text)
        /\ "author" \in DOMAIN last'.args.kwargs => ~OnlySpaces(last'.args.kwargs.author))
       => CarriedNames(db', last'.args.quote_id)
            = IF "tags" \in DOMAIN last'.args.kwargs
              THEN TrimmedNames(TagList(last'.args.kwargs.tags))
              ELSE CarriedNames(db, last'.args.quote_id)]_vars

---------------------------------------------------------------------------
(* The fields of a quote that update_quote can set *)
QuoteColumns == {"text", "author", "source", "year"}

\* the last call was update_quote and returned True
LastUpdateSucceeded(l) ==
    l.op = "update_quote" /\ l.result = "ok" /\ l.value = TRUE

(* C11: a successful update(id, fields) changes only the supplied fields   *)
(* of quote id: each omitted column and, when tags is omitted, the tags of *)
(* that quote keep their value, its id and creation timestamp are          *)
(* unchanged, and every other quote and its tags are unchanged.            *)
C11_UpdateChangesOnlySuppliedFields ==
    [][LastUpdateSucceeded(last') =>
         LET id  == last'.args.quote_id
             kw  == last'.args.kwargs
             old == QuoteRow(db, id)
             new == QuoteRow(db', id)
         IN  /\ {q.id : q \in db'.quotes} = {q.id : q \in db.quotes}
             /\ new.id = old.id
             /\ new.created_at = old.created_at
             /\ \A f \in QuoteColumns \ DOMAIN kw : new[f] = old[f]
             /\ "tags" \notin DOMAIN kw =>
                    CarriedNames(db', id) = CarriedNames(db, id)
             /\ \A q \in db.quotes :
                    q.id # id => /\ q \in db'.quotes
                                 /\ CarriedNames(db', q.id) = CarriedNames(db, q.id)
    ]_vars

\* update(2, year = 42) returned True on a store of two quotes; the quote
\* kept the source it was added with
C11_Witness ==
    /\ LastUpdateSucceeded(last)
    /\ last.args.quote_id = 2
    /\ DOMAIN last.args.kwargs = {"year"}
    /\ Cardinality(db.quotes) = 2
    /\ QuoteRow(db, 2).source = Some(<<"s">>)
    /\ CarriedNames(db, 2) = {<<"x">>}
    /\ QuoteRow(db, 2).year = Some(42)

---------------------------------------------------------------------------
\* the keyword arguments hold a text or an author that is empty or blank
SuppliesBlank(kw) ==
    \/ "text" \in DOMAIN kw /\ OnlySpaces(kw.text)
    \/ "author" \in DOMAIN kw /\ OnlySpaces(kw.author)

\* an update_quote call that returns False and leaves the file alone
UpdateReturnsFalse(l, d, d2) == l.result = "ok" /\ l.value = FALSE /\ d2 = d

(* C12 as stated: update on an id that is not in the store returns false   *)
(* and mutates nothing, whatever fields are supplied.                      *)
C12_UpdateOfMissingIdReturnsFalse ==
    [][(last'.op = "update_quote" /\ ~QuoteExists(db, last'.args.quote_id))
          => UpdateReturnsFalse(last', db, db')
    ]_vars

(* C12 amended: update on an id that is not in the store returns false     *)
(* and mutates nothing when no supplied text or author is empty or blank;  *)
(* with such a text or author it fails with InvalidInput and mutates       *)
(* nothing.                                                                *)
C12_UpdateOfMissingIdWithValidFields ==
    [][(last'.op = "update_quote" /\ ~QuoteExists(db, last'.args.quote_id))
          => IF SuppliesBlank(last'.args.kwargs)
             THEN last'.result = "InvalidInputError" /\ db' = db
             ELSE UpdateReturnsFalse(last', db, db')
    ]_vars

\* update(2, tags = ["y"]) returned False on a store that holds quote 1
\* only, and no tag row named y exists
C12_Witness ==
    /\ last.op = "update_quote"
    /\ last.result = "ok"
    /\ last.value = FALSE
    /\ last.args.quote_id = 2
    /\ last.args.kwargs = [tags |-> Some(<< <<"y">> >>)]
    /\ QuoteExists(db, 1)
    /\ ~QuoteExists(db, 2)
    /\ TagIdsNamed(db, <<"y">>) = {}

---------------------------------------------------------------------------
(* C13: update validates text and author as add does: with a supplied text *)
(* or author that is empty or blank it fails with InvalidInput and leaves  *)
(* the store unchanged, it fails with InvalidInput for no other input, and *)
(* an update that succeeds stores a supplied text or author trimmed.       *)
C13_UpdateValidatesTextAndAuthor ==
    [][last'.op = "update_quote" =>
         LET id == last'.args.quote_id
             kw == last'.args.kwargs
         IN  /\ SuppliesBlank(kw) <=> last'.result = "InvalidInputError"
             /\ SuppliesBlank(kw) => db' = db
             /\ LastUpdateSucceeded(last') =>
                    /\ "text" \in DOMAIN kw =>
                           IsTrimOf(QuoteRow(db', id).text, kw.text)
                    /\ "author" \in DOMAIN kw =>
                           IsTrimOf(QuoteRow(db', id).author, kw.author)
    ]_vars

\* update(1, text = " b ", author = "a ") returned True on the quote added
\* as ("a", "A"), which now reads ("b", "a")
C13_Witness ==
    /\ LastUpdateSucceeded(last)
    /\ last.args.quote_id = 1
    /\ last.args.kwargs = [text |-> <<" ", "b", " ">>, author |-> <<"a", " ">>]
    /\ QuoteRow(db, 1).source = None
    /\ QuoteRow(db, 1).text = <<"b">>
    /\ QuoteRow(db, 1).author = <<"a">>

---------------------------------------------------------------------------
\* the association rows of quote quote_id
AssociationsOf(d, quote_id) ==
    {r \in BagToSet(d.quote_tags) : r.quote_id = quote_id}

(* C14: delete(id) on an existing quote returns true, removes the quote    *)
(* and every association of that quote and removes no tag row: each tag    *)
(* the quote carried is still listed by listAllTags, with count 0 if no    *)
(* other quote carries it.  delete on a missing id returns false and       *)
(* changes nothing.                                                        *)
C14_DeleteKeepsTagRows ==
    [][(last'.op = "delete_quote" /\ last'.result = "ok") =>
         LET id == last'.args.quote_id
         IN  IF QuoteExists(db, id)
             THEN /\ last'.value = TRUE
                  /\ db'.quotes = db.quotes \ {QuoteRow(db, id)}
                  /\ AssociationsOf(db', id) = {}
                  /\ db'.tags = db.tags
                  /\ \A name \in CarriedNames(db, id) :
                         \E i \in DOMAIN ListAllTags(db') :
                             /\ ListAllTags(db')[i][1] = name
                             /\ (\A q \in db.quotes :
                                     q.id # id => ~Carries(db, q.id, name))
                                 => ListAllTags(db')[i][2] = 0
             ELSE last'.value = FALSE /\ db' = db
    ]_vars

\* delete(1) returned True; quote 2 is still stored, and a tag row is left
\* that list_all_tags reports with count 0
C14_Witness ==
    /\ last.op = "delete_quote"
    /\ last.result = "ok"
    /\ last.value = TRUE
    /\ last.args.quote_id = 1
    /\ QuoteExists(db, 2)
    /\ \E i \in DOMAIN ListAllTags(db) : ListAllTags(db)[i][2] = 0

---------------------------------------------------------------------------
\* the names of the tag rows of the file
StoredTagNames(d) == {t.name : t \in d.tags}

(* C15: the set of tag names in the store never shrinks: whatever add,     *)
(* update, addTagToQuote or delete call is made, every tag row that exists *)
(* before the call exists after it, under the same id.                     *)
C15_TagRowsNeverRemoved ==
    [][/\ StoredTagNames(db) \subseteq StoredTagNames(db')
       /\ db.tags \subseteq db'.tags
    ]_vars

\* update(1, tags = []) returned True and left a tag row no quote carries
C15_Witness ==
    /\ LastUpdateSucceeded(last)
    /\ last.args.quote_id = 1
    /\ last.args.kwargs = [tags |-> Some(<<>>)]
    /\ CarriedNames(db, 1) = {}
    /\ \E t \in db.tags : TagCount(db, t) = 0

---------------------------------------------------------------------------
\* the number of association rows between quote quote_id and tag rows
\* named name
AssociationCount(d, quote_id, name) ==
    BagCardinality(
        [r \in {x \in AssociationsOf(d, quote_id) :
                   \E t \in d.tags : t.id = x.tag_id /\ t.name = name}
           |-> d.quote_tags[r]])

(* C16: addTagToQuote is idempotent: on an existing quote and a tag that   *)
(* is not blank, every call returns true and leaves exactly one            *)
(* association between the quote and the trimmed tag, and a call made when *)
(* the quote already carries the tag, as it does after a first call,       *)
(* leaves the state as it was.                                             *)
C16_AddTagToQuoteIdempotent ==
    [][(/\ last'.op = "add_tag_to_quote"
        /\ QuoteExists(db, last'.args.quote_id)
        /\ ~OnlySpaces(last'.args.tag)) =>
         LET id == last'.args.quote_id
         IN  /\ last'.result = "ok"
             /\ last'.value = TRUE
             /\ \A r \in TrimmedNames(<<last'.args.tag>>) :
                    /\ AssociationCount(db', id, r) = 1
                    /\ Carries(db, id, r) => db' = db
    ]_vars

\* addTagToQuote(1, "x ") returned True on quote 1, which carries x once
\* and y as well
C16_Witness ==
    /\ last.op = "add_tag_to_quote"
    /\ last.result = "ok"
    /\ last.value = TRUE
    /\ last.args = [quote_id |-> 1, tag |-> <<"x", " ">>]
    /\ AssociationCount(db, 1, <<"x">>) = 1
    /\ Carries(db, 1, <<"y">>)

---------------------------------------------------------------------------
(* C17: addTagToQuote fails with InvalidInput when the tag is empty or     *)
(* blank, and returns false when the tag is not blank and the quote does   *)
(* not exist; in both cases the store is unchanged, so no tag row is       *)
(* created for the named tag.                                              *)
C17_AddTagToQuoteRejections ==
    [][last'.op = "add_tag_to_quote" =>
         IF OnlySpaces(last'.args.tag)
         THEN last'.result = "InvalidInputError" /\ db' = db
         ELSE ~QuoteExists(db, last'.args.quote_id) =>
                  /\ last'.result = "ok"
                  /\ last'.value = FALSE
                  /\ db' = db
    ]_vars

\* addTagToQuote(2, "y") returned False on a store that holds quote 1 only
\* and has no tag row named y
C17_Witness ==
    /\ last.op = "add_tag_to_quote"
    /\ last.result = "ok"
    /\ last.value = FALSE
    /\ last.args = [quote_id |-> 2, tag |-> <<"y">>]
    /\ QuoteExists(db, 1)
    /\ ~QuoteExists(db, 2)
    /\ TagIdsNamed(db, <<"y">>) = {}

---------------------------------------------------------------------------
\* the last call was add_quote and returned a quote
AddSucceeded(l) == l.op = "add_quote" /\ l.result = "ok"

(* C18: quote ids increase monotonically and are never reused.  The        *)
(* sqlite_sequence entry of quotes never decreases and is at least every   *)
(* stored id; each successful add returns an id greater than that entry    *)
(* and sets the entry to it, so the id is greater than the id of every     *)
(* earlier successful add, whether or not that quote has been deleted.     *)
C18_QuoteIdsNeverReused ==
    [][/\ db'.seq.quotes >= db.seq.quotes
       /\ \A q \in db'.quotes : q.id <= db'.seq.quotes
       /\ AddSucceeded(last') =>
              /\ last'.value.id > db.seq.quotes
              /\ last'.value.id > MaxId(db.quotes)
              /\ last'.value.id = db'.seq.quotes
    ]_vars

\* add returned id 2 after quote 1 had been deleted
C18_Witness ==
    /\ AddSucceeded(last)
    /\ last.value.id = 2
    /\ ~QuoteExists(db, 1)
    /\ QuoteExists(db, 2)

---------------------------------------------------------------------------
\* the operations that return a list of quotes
ListingOps ==
    {"get_all_quotes", "get_quotes_by_author", "get_quotes_by_tag", "search_quotes"}

(* C19: getAll, getByAuthor, getByTag and search return quotes most recent *)
(* first: a quote whose add completed before the add of another began, and *)
(* which therefore has the smaller id, comes after the other in the        *)
(* result, also when both were added within the same second.               *)
C19_MostRecentFirst ==
    last.op \in ListingOps =>
        \A i, j \in DOMAIN last.value :
            i < j => last.value[i].id > last.value[j].id

---------------------------------------------------------------------------
\* sub occurs in s as a run of consecutive characters
Contains(s, sub) ==
    \E i \in 0..(Len(s) - Len(sub)) : SubSeq(s, i + 1, i + Len(sub)) = sub

\* a filter of search that is supplied: not None and not empty
Supplied(o) == o # None /\ o[1] # <<>>

\* quote row q satisfies all supplied filters of the search call a
SatisfiesFilters(d, q, a) ==
    /\ Supplied(a.query) =>
           \/ Contains(LowerStr(q.text), LowerStr(a.query[1]))
           \/ Contains(LowerStr(q.author), LowerStr(a.query[1]))
    /\ Supplied(a.author) => LowerStr(q.author) = LowerStr(a.author[1])
    /\ Supplied(a.tags) =>
           \A k \in 1..Len(a.tags[1]) : Carries(d, q.id, a.tags[1][k])

(* C20: for every query, author and tag list, search returns exactly the   *)
(* quotes that satisfy all supplied filters together -- the query is a     *)
(* substring of the text or of the author ignoring case, the author equals *)
(* the quote's author ignoring case, the quote carries every listed tag -- *)
(* and each matching quote appears exactly once.                           *)
C20_SearchReturnsExactlyTheMatches ==
    last.op = "search_quotes" =>
        /\ {last.value[i].id : i \in DOMAIN last.value}
               = {q.id : q \in {r \in db.quotes : SatisfiesFilters(db, r, last.args)}}
        /\ \A i, j \in DOMAIN last.value :
               i # j => last.value[i].id # last.value[j].id

---------------------------------------------------------------------------
\* the search call a has no filter: each is None or empty
NoFilters(a) == ~Supplied(a.query) /\ ~Supplied(a.author) /\ ~Supplied(a.tags)

---------------------------------------------------------------------------
\* the ids of the quotes of a list, and whether none occurs twice
IdsOf(quotes) == {quotes[i].id : i \in DOMAIN quotes}

EachOnce(quotes) ==
    \A i, j \in DOMAIN quotes : i # j => quotes[i].id # quotes[j].id

(* C22: getByAuthor(a) returns exactly the quotes whose stored author is   *)
(* the string a, case-sensitively, and getByTag(t) exactly the quotes      *)
(* associated with the tag named exactly t, each quote once; when nothing  *)
(* matches the result is the empty sequence, not an error.                 *)
C22_ByAuthorAndByTagExact ==
    /\ last.op = "get_quotes_by_author" =>
           /\ last.result = "ok"
           /\ IdsOf(last.value)
                  = {q.id : q \in {r \in db.quotes : r.author = last.args.author}}
           /\ EachOnce(last.value)
    /\ last.op = "get_quotes_by_tag" =>
           /\ last.result = "ok"
           /\ IdsOf(last.value)
                  = {q.id : q \in {r \in db.quotes : Carries(db, r.id, last.args.tag)}}
           /\ EachOnce(last.value)

\* getByAuthor("a") returned one quote of a store that also holds a quote
\* by "A"
C22_Witness ==
    /\ last.op = "get_quotes_by_author"
    /\ last.args.author = <<"a">>
    /\ Len(last.value) = 1
    /\ \E q \in db.quotes : q.author = <<"A">>

---------------------------------------------------------------------------
\* the quote rows associated with a tag row named name
QuotesCarrying(d, name) == {q \in d.quotes : Carries(d, q.id, name)}

(* C23: in every reachable state listAllTags returns one entry per tag     *)
(* row, tags without quotes included, in ascending lexicographic order of  *)
(* the names, and the count of each entry is the number of quotes          *)
(* associated with the tag, which is the number of quotes getByTag returns *)
(* for it.                                                                 *)
C23_ListAllTagsCounts ==
    last.op = "list_all_tags" =>
        /\ Len(last.value) = Cardinality(db.tags)
        /\ {last.value[i][1] : i \in DOMAIN last.value} = StoredTagNames(db)
        /\ \A i, j \in DOMAIN last.value :
               i < j => LexLess(last.value[i][1], last.value[j][1])
        /\ \A i \in DOMAIN last.value :
               /\ last.value[i][2]
                      = Cardinality(QuotesCarrying(db, last.value[i][1]))
               /\ \A r \in GetQuotesByTag(db, last.value[i][1]) :
                      Len(r) = last.value[i][2]

\* listAllTags returned x with no quote and y with one quote, where the
\* row of y was created before the row of x
C23_Witness ==
    /\ last.op = "list_all_tags"
    /\ last.value = << << <<"x">>, 0 >>, << <<"y">>, 1 >> >>
    /\ TagIdsNamed(db, <<"y">>) = {1}

---------------------------------------------------------------------------
\* the candidate set of randomQuote: the quotes bearing the tag, or all
\* quotes when no tag is given
Candidates(d, tag) ==
    IF Supplied(tag) THEN QuotesCarrying(d, tag[1]) ELSE d.quotes

(* C24: randomQuote(tag?) returns the not-found sentinel exactly when the  *)
(* candidate set is empty; otherwise it returns a member of the candidate  *)
(* set, as get_quote_by_id reads it, and every member of the candidate set *)
(* is a possible result.                                                   *)
C24_RandomQuoteFromCandidates ==
    /\ \A tag \in RandomTagInputs :
           /\ None \in GetRandomQuote(db, tag) <=> Candidates(db, tag) = {}
           /\ \A q \in Candidates(db, tag) :
                  GetQuoteById(db, q.id) \in GetRandomQuote(db, tag)
    /\ last.op = "get_random_quote" =>
           /\ last.result = "ok"
           /\ last.value = None <=> Candidates(db, last.args.tag) = {}
           /\ last.value # None =>
                  /\ last.value[1].id \in {q.id : q \in Candidates(db, last.args.tag)}
                  /\ last.value = GetQuoteById(db, last.value[1].id)

\* randomQuote("y") returned quote 2 of a store in which quotes 1 and 2
\* bear the tag y
C24_Witness ==
    /\ last.op = "get_random_quote"
    /\ last.args.tag = Some(<<"y">>)
    /\ last.value # None
    /\ last.value[1].id = 2
    /\ Carries(db, 1, <<"y">>)
    /\ Carries(db, 2, <<"y">>)

---------------------------------------------------------------------------
\* the number of quotes by an author, and of associations of a tag name
QuotesBy(d, author) == Cardinality({q \in d.quotes : q.author = author})

AssociationsNamed(d, name) == Cardinality(QuotesCarrying(d, name))

\* label is "name (n quotes)" for an author with the maximal quote count n
NamesTopAuthor(d, label) ==
    \E q \in d.quotes :
        /\ \A o \in d.quotes : QuotesBy(d, o.author) <= QuotesBy(d, q.author)
        /\ label = q.author \o <<" (", ToString(QuotesBy(d, q.author)), " quotes)">>

\* label is "name (n quotes)" for a tag with the maximal association count n
NamesTopTag(d, label) ==
    \E t \in d.tags :
        /\ \A o \in d.tags :
               AssociationsNamed(d, o.name) <= AssociationsNamed(d, t.name)
        /\ label = t.name \o <<" (", ToString(AssociationsNamed(d, t.name)), " quotes)">>

\* the three totals of a statistics record are those of the store
TotalsAgree(d, stats) ==
    /\ stats.total_quotes = Cardinality(d.quotes)
    /\ stats.total_authors = Cardinality({q.author : q \in d.quotes})
    /\ stats.total_tags = Cardinality(d.tags)

(* C25: in every store state getStatistics reports total_quotes, the       *)
(* number of quotes, total_authors, the number of distinct authors, and    *)
(* total_tags, the number of tag rows; most_quoted_author names an author  *)
(* with the maximal quote count and most_common_tag a tag with the maximal *)
(* association count, each with that count, where an author or a tag       *)
(* exists to be named; on an empty store all counts are 0 and both fields  *)
(* are N/A.                                                                *)
C25_StatisticsOfStore ==
    last.op = "get_statistics" =>
        /\ TotalsAgree(db, last.value)
        /\ IF db.quotes = {}
           THEN last.value.most_quoted_author = <<"N/A">>
           ELSE NamesTopAuthor(db, last.value.most_quoted_author)
        /\ IF db.tags = {}
           THEN last.value.most_common_tag = <<"N/A">>
           ELSE NamesTopTag(db, last.value.most_common_tag)
        /\ (db.quotes = {} /\ db.tags = {}) =>
               /\ last.value.total_quotes = 0
               /\ last.value.total_authors = 0
               /\ last.value.total_tags = 0

---------------------------------------------------------------------------
\* the quote rows of d2 that are not in d and hold seed entry k with its
\* tags
InsertedEntry(d, d2, k) ==
    {q \in d2.quotes \ d.quotes :
        /\ q.text = SeedQuotes[k].text
        /\ q.author = SeedQuotes[k].author
        /\ q.source = SeedQuotes[k].source
        /\ q.year = SeedQuotes[k].year
        /\ CarriedNames(d2, q.id) = Range(SeedQuotes[k].tags[1])}

(* C26: seed is idempotent without force: when the store holds at least    *)
(* one quote, seed(force=false) inserts nothing, leaves the store          *)
(* unchanged and returns (0, current total); seed(force=true), and seed on *)
(* a store without quotes, inserts each entry of the fixed set once more   *)
(* whatever the contents and keeps the quotes that were there, so a forced *)
(* second seed doubles the seed entries.                                   *)
C26_SeedIdempotentWithoutForce ==
    [][last'.op = "seed_database" =>
         /\ last'.result = "ok"
         /\ IF ~last'.args.force /\ db.quotes # {}
            THEN /\ db' = db
                 /\ last'.value = <<0, Cardinality(db.quotes)>>
            ELSE /\ db.quotes \subseteq db'.quotes
                 /\ \A k \in 1..SeedLen :
                        Cardinality(InsertedEntry(db, db', k)) = 1
                 /\ Cardinality(db'.quotes) = Cardinality(db.quotes) + SeedLen
                 /\ last'.value = <<SeedLen, Cardinality(db'.quotes)>>
    ]_vars

\* a forced seed of a seeded store returned (SeedLen, 2 * SeedLen): each
\* entry is stored twice
C26_Witness ==
    /\ last.op = "seed_database"
    /\ last.args.force
    /\ last.value = <<SeedLen, 2 * SeedLen>>
    /\ \A k \in 1..SeedLen :
           Cardinality({q \in db.quotes : q.text = SeedQuotes[k].text}) = 2

---------------------------------------------------------------------------
(* C27: when inserting some seed entries fails, seed does not raise and    *)
(* does not abort: no stored quote is lost, every entry whose insert does  *)
(* not fail is inserted, the first returned number is the count of entries *)
(* inserted and the second the number of quotes in the store afterwards.   *)
C27_SeedSkipsFailedEntries ==
    [][(/\ last'.op = "seed_database"
        /\ last'.args.force \/ db.quotes = {}) =>
         /\ last'.result = "ok"
         /\ db.quotes \subseteq db'.quotes
         /\ \A k \in 1..SeedLen :
                /\ Cardinality(InsertedEntry(db, db', k)) <= 1
                /\ last'.args.faults[k] = 0 =>
                       Cardinality(InsertedEntry(db, db', k)) = 1
         /\ last'.value[1] = Cardinality(db'.quotes \ db.quotes)
         /\ last'.value[2] = Cardinality(db'.quotes)
    ]_vars

---------------------------------------------------------------------------
\* the version ledger holds one row, and it is for the current schema version
LedgerOnce(d) ==
    /\ Cardinality(d.schema_version) = 1
    /\ \A r \in d.schema_version : r.version = SCHEMA_VERSION

(* C28: init_database is idempotent: it changes no quote, tag or           *)
(* association; a call that returns leaves exactly one ledger row, for the *)
(* current schema version; without a storage fault it returns, the first   *)
(* time and every later time; and the ledger row, once there, is never     *)
(* changed by init_database or any other operation.                        *)
C28_InitializeIdempotent ==
    [][/\ last'.op = "init_database" =>
            /\ db'.quotes = db.quotes
            /\ db'.tags = db.tags
            /\ db'.quote_tags = db.quote_tags
            /\ last'.result = "ok" => LedgerOnce(db')
            /\ last'.args.fault = 0 => last'.result = "ok"
       /\ LedgerOnce(db) => db'.schema_version = db.schema_version
    ]_vars

\* init_database has returned on a store that had the ledger row and quotes
C28_Witness ==
    /\ last.op = "init_database"
    /\ last.result = "ok"
    /\ db.quotes # {}
    /\ db.tags # {}
    /\ LedgerOnce(db)

---------------------------------------------------------------------------
(* C29: check_if_seeded returns without raising, and returns true exactly  *)
(* when a quote row exists: false on a path without a file, on a file      *)
(* without tables and on an initialized store whose quotes were deleted.   *)
C29_IsSeededIffQuoteExists ==
    last.op = "check_if_seeded" =>
        /\ last.result = "ok"
        /\ last.value <=> db.quotes # {}
        /\ ~HasTables(db) => ~last.value

\* false again on an initialized store whose quotes were all deleted
C29_Witness ==
    /\ last.op = "check_if_seeded"
    /\ last.value = FALSE
    /\ HasTables(db)
    /\ db.seq.quotes > 0
    /\ db.quotes = {}

---------------------------------------------------------------------------
(* C30: migrate_database raises NotImplementedError for every pair of      *)
(* versions in every state of the store and changes nothing of the store,  *)
(* the version ledger included.                                            *)
C30_MigrateAlwaysUnimplemented ==
    [][last'.op = "migrate_database" =>
          /\ last'.result = "NotImplementedError"
          /\ db' = db
    ]_vars

\* migrate_database has failed on an initialized store that holds quotes
C30_Witness ==
    /\ last.op = "migrate_database"
    /\ last.result = "NotImplementedError"
    /\ last.args.from_version = 1
    /\ last.args.to_version = 2
    /\ LedgerOnce(db)
    /\ db.quotes # {}

---------------------------------------------------------------------------
\* the identifiers of the resources
ResourceNames ==
    {<<"a", "l", "l">>, <<"i", "d">>, <<"a", "u", "t", "h", "o", "r">>,
     <<"t", "a", "g">>, <<"r", "a", "n", "d", "o", "m">>,
     <<"s", "t", "a", "t", "s">>, <<"t", "a", "g", "s">>}

\* the text of s before its first "/"
RECURSIVE UpToSlash(_)
UpToSlash(s) ==
    IF s = <<>> \/ Head(s) = "/" THEN <<>> ELSE <<Head(s)>> \o UpToSlash(Tail(s))

\* uri names one of the resources: quote://<identifier> or
\* quote://<identifier>/<rest>
NamesAResource(uri) ==
    /\ Len(uri) >= Len(Scheme)
    /\ SubSeq(uri, 1, Len(Scheme)) = Scheme
    /\ UpToSlash(SubSeq(uri, Len(Scheme) + 1, Len(uri))) \in ResourceNames

\* uri is quote://id/<rest>
IsIdUri(uri) ==
    /\ Len(uri) >= Len(Scheme) + 3
    /\ SubSeq(uri, 1, Len(Scheme) + 3) = Scheme \o <<"i", "d", "/">>

IdText(uri) == SubSeq(uri, Len(Scheme) + 4, Len(uri))

\* s is a decimal numeral, with a leading minus sign or without
IsNumeral(s) ==
    LET digits == IF s # <<>> /\ s[1] = "-" THEN Tail(s) ELSE s
    IN  /\ digits # <<>>
        /\ \A i \in 1..Len(digits) :
               digits[i] \in {"0", "1", "2", "3", "4", "5", "6", "7", "8", "9"}

\* s is empty or has a character no number is written with
NotANumber(s) ==
    \/ s = <<>>
    \/ \E i \in 1..Len(s) :
           s[i] \notin {"0", "1", "2", "3", "4", "5", "6", "7", "8", "9",
                        "+", "-", " ", "_"}

\* the ids of the store written as numerals: 1 .. 9
NumeralOf(id) == <<ToString(id)>>

\* the outcome l of reading a resource from store d is the one the facade
\* promises for its URI
DescriptiveOutcome(l, d) ==
    /\ l.result \in {"ok", "ValueError"}
    /\ IsIdUri(l.args.uri) /\ NotANumber(IdText(l.args.uri)) =>
           l.result = "ValueError" /\ l.value.message = "Invalid quote ID"
    /\ IsIdUri(l.args.uri) /\ IsNumeral(IdText(l.args.uri)) =>
           IF \E q \in d.quotes : NumeralOf(q.id) = IdText(l.args.uri)
           THEN l.result = "ok" /\ NumeralOf(l.value.id) = IdText(l.args.uri)
           ELSE l.result = "ValueError" /\ l.value.message = "Quote not found"
    /\ ~NamesAResource(l.args.uri) =>
           l.result = "ValueError" /\ l.value.message = "Unknown resource URI"
    /\ l.args.uri = UriRandom /\ d.quotes = {} =>
           l.result = "ok" /\ l.value = [error |-> "No quotes available"]

(* C31: the resource facade never changes the store and answers a bad      *)
(* identifier with a descriptive error: quote://id/<text that is no        *)
(* number> with an invalid-id error, quote://id/<number of no stored       *)
(* quote> with a not-found error, a URI of none of the seven resources     *)
(* with an unknown-resource error, and quote://random on a store without   *)
(* quotes with an error record that is returned, not raised.               *)
C31_ResourceErrorsDescriptive ==
    [][last'.op = "read_resource" =>
          /\ db' = db
          /\ DescriptiveOutcome(last', db)
    ]_vars

\* a number that is the id of no stored quote was read from a store that
\* holds a quote
C31_Witness ==
    /\ last.op = "read_resource"
    /\ last.args.uri = UriIdPrefix \o <<"2">>
    /\ last.result = "ValueError"
    /\ last.value.message = "Quote not found"
    /\ db.quotes # {}

---------------------------------------------------------------------------
\* the count a label "name (n quotes)" carries
CountOf(label) == label[Len(label) - 1]

\* statistics records f and s report the same totals, and a most-quoted
\* author and a most-common tag that are N/A in both or carry the same count
StatsAgree(f, s) ==
    /\ f.total_quotes = s.total_quotes
    /\ f.total_authors = s.total_authors
    /\ f.total_tags = s.total_tags
    /\ f.most_quoted_author = NotAvailable <=> s.most_quoted_author = NotAvailable
    /\ f.most_quoted_author # NotAvailable =>
           CountOf(f.most_quoted_author) = CountOf(s.most_quoted_author)
    /\ f.most_common_tag = NotAvailable <=> s.most_common_tag = NotAvailable
    /\ f.most_common_tag # NotAvailable /\ s.most_common_tag # NotAvailable =>
           CountOf(f.most_common_tag) = CountOf(s.most_common_tag)

(* C36: in every state of the store, states with only orphaned tags        *)
(* included, the statistics the facade computes (_get_stats, read through  *)
(* quote://stats) and the statistics of the store (get_statistics) agree:  *)
(* the same three totals, N/A in one exactly when in the other, and else   *)
(* the same count.                                                         *)
C36_StatisticsAgree ==
    /\ last.op = "read_resource" /\ last.args.uri = UriStats =>
           \A s \in GetStatistics(db) : StatsAgree(last.value, s)
    /\ last.op = "get_statistics" =>
           \A f \in GetStats(db) : StatsAgree(f, last.value)

---------------------------------------------------------------------------
\* arguments holds none of text, author, source, year, tags
NoUpdateField(arguments) ==
    \A f \in {"text", "author", "source", "year", "tags"} : f \notin DOMAIN arguments

(* C32: the update tool called with an id and none of text, author,        *)
(* source, year, tags returns the no-fields error without a call of the    *)
(* store's update_quote, for a stored and for a missing id alike, and the  *)
(* store is unchanged.                                                     *)
C32_UpdateToolWithoutFields ==
    [][(last'.op = "handle_update_quote" /\ NoUpdateField(last'.args)) =>
          /\ last'.result = "ok"
          /\ last'.value.text = <<"Error: No fields specified for update">>
          /\ last'.value.store = None
          /\ db' = db
    ]_vars

\* the tool was called without fields for a stored quote
C32_Witness ==
    /\ last.op = "handle_update_quote"
    /\ DOMAIN last.args = {"id", "note"}
    /\ last.value.text = <<"Error: No fields specified for update">>
    /\ QuoteExists(db, last.args.id)
    /\ ~QuoteExists(db, 1)

---------------------------------------------------------------------------
\* the store holds exactly the fixed seed set: each entry once, nothing else
HoldsSeedSet(d) ==
    /\ Cardinality(d.quotes) = Len(SeedQuotes)
    /\ \A k \in 1..Len(SeedQuotes) :
           \E q \in d.quotes :
               /\ q.text = SeedQuotes[k].text
               /\ q.author = SeedQuotes[k].author

\* no storage fault is injected into the call
Faultless(a) ==
    /\ a.init_fault = 0
    /\ \A k \in DOMAIN a.faults : a.faults[k] = 0
    /\ ~a.read_fault

(* C33: setup_database initializes the schema before it seeds and seeds at *)
(* most once.  A run that returns leaves the tables and the ledger row; a  *)
(* run without auto-seed leaves the quotes as they were; a run on a store  *)
(* that holds a quote leaves the quotes as they were; a run with auto-seed *)
(* and without storage faults on a store without quotes, the absent file   *)
(* included, leaves exactly the fixed seed set, which every later run      *)
(* keeps; a failure of seeding leaves the run returning, a failure of      *)
(* initialization makes it raise.                                          *)
C33_SetupInitializesThenSeedsOnce ==
    [][last'.op = "setup_database" =>
          /\ last'.result = "ok" => HasTables(db') /\ LedgerOnce(db')
          /\ ~last'.args.auto_seed => db'.quotes = db.quotes
          /\ db.quotes # {} => db'.quotes = db.quotes
          /\ (last'.args.auto_seed /\ Faultless(last'.args) /\ db.quotes = {}) =>
                 HoldsSeedSet(db')
          /\ HoldsSeedSet(db) => HoldsSeedSet(db')
          /\ last'.args.init_fault = 0 => last'.result = "ok"
          /\ last'.result # "ok" =>
                 /\ last'.args.init_fault # 0
                 /\ db'.quotes = db.quotes
    ]_vars

\* a later start has found the seed set and kept it
C33_Witness ==
    /\ last.op = "setup_database"
    /\ last.args.auto_seed
    /\ last.result = "ok"
    /\ last.value.is_seeded
    /\ last.value.seeding = "none"
    /\ HoldsSeedSet(db)

---------------------------------------------------------------------------
---------------------------------------------------------------------------
\* the call is an add, an update with tags or an addTagToQuote that names
\* the tag
ReferencesTag(call, name) ==
    CASE call.op = "add_quote" -> name \in Range(TagNames(TagList(call.a.tags)))
      [] call.op = "update_quote" ->
             /\ "tags" \in DOMAIN call.kw
             /\ name \in Range(TagNames(TagList(call.kw.tags)))
      [] call.op = "add_tag_to_quote" -> ~OnlySpaces(call.tag) /\ IsTrimOf(name, call.tag)
      [] OTHER -> FALSE

\* the call has ended without a storage fault, and the quote it names, if
\* it names one, is stored
Completed(proc) ==
    /\ proc.pc = "done"
    /\ proc.result # "OperationalError"
    /\ proc.call.op # "add_quote" => QuoteExists(db, proc.call.quote_id)

(* C35: when the calls of two concurrent callers (add, update with tags,   *)
(* addTagToQuote) name the same tag, which no tag row had before them,     *)
(* then under every interleaving both calls succeed and one tag row of     *)
(* that name is stored: a caller that loses the race to create the row     *)
(* reads it again and does not fail.                                       *)
C35_ConcurrentTagCreation ==
    (\A p \in Callers :
        Completed(procs[p]) /\ ReferencesTag(procs[p].call, <<"y">>)) =>
        /\ \A p \in Callers : procs[p].result = "ok"
        /\ Cardinality(TagIdsNamed(db, <<"y">>)) = 1

---------------------------------------------------------------------------
\* what the call was to change is stored for its quote
ChangeVisible(d, call) ==
    /\ QuoteExists(d, call.quote_id)
    /\ call.op = "add_tag_to_quote" =>
           \E name \in StoredTagNames(d) :
               IsTrimOf(name, call.tag) /\ Carries(d, call.quote_id, name)
    /\ (call.op = "update_quote" /\ "text" \in DOMAIN call.kw) =>
           IsTrimOf(QuoteRow(d, call.quote_id).text, call.kw.text)
    /\ (call.op = "update_quote" /\ "tags" \in DOMAIN call.kw) =>
           \A name \in Range(TagNames(TagList(call.kw.tags))) :
               Carries(d, call.quote_id, name)

\* caller p ends an update_quote or add_tag_to_quote with this step, and
\* not on blank input or a storage fault
EndsEdit(p) ==
    /\ procs[p].pc \notin {"idle", "done"}
    /\ procs'[p].pc = "done"
    /\ procs'[p].call.op \in {"update_quote", "add_tag_to_quote"}
    /\ procs'[p].result # "OperationalError"

(* C38: update_quote and add_tag_to_quote report success only for a quote  *)
(* that is stored when they commit: under every interleaving with a        *)
(* concurrent delete_quote of the same id, a call that returns true has    *)
(* its change stored on a stored quote, and a call whose quote was deleted *)
(* before its last statement returns false.                                *)
C38_SuccessOnlyForStoredQuote ==
    [][\A p \in Callers :
          EndsEdit(p) =>
              /\ (procs'[p].result = "ok" /\ procs'[p].value) =>
                     ChangeVisible(db', procs'[p].call)
              /\ ~QuoteExists(db, procs'[p].call.quote_id) =>
                     procs'[p].result = "ok" /\ ~procs'[p].value
    ]_vars

---------------------------------------------------------------------------
\* the quotes of store d that are entry k of the seed list
SeedEntryRows(d, k) ==
    {q \in d.quotes : q.text = SeedQuotes[k].text /\ q.author = SeedQuotes[k].author}

(* C37: seed_database without force stays idempotent under concurrency:    *)
(* when two such calls, begun on an initialized store without quotes, have *)
(* both returned, the store holds each entry of the seed list once.        *)
C37_ConcurrentSeedOnce ==
    (\A p \in Callers :
        /\ procs[p].pc = "done"
        /\ procs[p].call.op = "seed_database"
        /\ ~procs[p].call.force) =>
        \A k \in 1..Len(SeedQuotes) : Cardinality(SeedEntryRows(db, k)) = 1

====
